---- MODULE Spec2Model ----
(***************************************************************************)
(* Model of the crossword generator of Crucigrama (generateCrossword,      *)
(* buildCrosswordForDifficulty) and of the game screen Home that shows a   *)
(* layout: the board data derived from it, the clock, the overlays.        *)
(*                                                                         *)
(* Strings are sequences of one-letter strings, "" is the empty grid cell  *)
(* (falsy in the source), cells are 0-based as in the source, keyOf(r, c)  *)
(* is the pair <<r, c>> and an entry id `${prefix}${n}` is <<prefix, n>>.  *)
(* Math.random is a nondeterministic choice: an operator that depends on   *)
(* it yields the set of the values it can return.                          *)
(***************************************************************************)
EXTENDS Integers, Sequences, FiniteSets

VARIABLES
  words,    \* argument of generateCrossword: sequence of WordDef
  rows,     \* argument of generateCrossword
  cols,     \* argument of generateCrossword
  pc,       \* "call" (entered), "loop" (top of the restart loop), "done" (returned)
  restart,  \* loop variable of the restart loop (local to the loop: 0 outside it)
  result,   \* the returned Crossword (meaningful when pc = "done")
  poolWords,   \* argument `words` of buildCrosswordForDifficulty
  difficulty,  \* argument `difficulty` of buildCrosswordForDifficulty
  bpc,         \* "idle" (not called), "call", "loop" (top of the attempt loop), "done"
  attempt,     \* loop variable of the attempt loop (local to the loop: 0 outside it)
  invoked,     \* whether buildCrosswordForDifficulty has called generateCrossword
  build,       \* the returned CrosswordBuildResult (meaningful when bpc = "done")
  \* State of the component Home (useState), after the effects of a render.
  configLoaded, wordPool, difficultyConfig, configError,
  dataNivel,   \* data.nivel of the document cargarConfig has read ("" when missing)
  crossword,
  expected,    \* expectedByCell of the useMemo: the letter of every cell of an entry
  letters,     \* Record<string, string>: a function on the keys that were set
  showStartScreen, showCountdown, countdown, showSummary, pausado,
  showKeepTrying, showCongrats,
  tiempoRestante, puntuacionTotal, completedExercises, correctWordsTotal,
  incorrectWordsTotal, currentExercise,
  \* Refs (useRef) and timers (setTimeout) of Home.
  timeoutHandledRef, validationHandledRef,
  transitionTimeout,  \* the timer of transitionTimeoutRef: null, or its wordResults
  congratsTimeouts,   \* the pending 2000 ms timers of the validation effect: the
                      \* totalWords of each, oldest first
  hideTimeouts,       \* number of pending 500 ms timers of the countdown effect
  \* History of the layout on show, since setCrossword or resetGame.
  completions,        \* times the validation effect has handled "all correct"
  timeouts,           \* times the clock has handled "time reaches zero"
  tiempoAtPause,      \* tiempoRestante when handlePausar took effect, 0 out of a pause
  \* One iteration of the restart loop of generateCrossword, call by call.
  perm,        \* `shuffled` of the iteration
  seedK,       \* place in the two loops over offsets: dr is number seedK div 5
               \* of offsets, dc is number seedK mod 5
  heap,        \* the grids (string[][]) of the iteration by reference: heap[1]
               \* is `grid`, the others are the grids made by cloneGrid
  stack,       \* the calls of backtrack in progress, the outermost first
  spc,         \* "idle", "seeds" (in the loops over offsets), "search" (in
               \* backtrack), "built", "failed"
  placeCall    \* the last call of canPlace: its arguments, its result, the
               \* cells it may read

genVars == <<words, rows, cols, pc, restart, result>>

selVars == <<poolWords, difficulty, bpc, attempt, invoked, build>>

configVars == <<configLoaded, wordPool, difficultyConfig, configError, dataNivel>>

boardVars == <<crossword, expected, letters>>

congratsVars == <<showCongrats, puntuacionTotal, congratsTimeouts, completions>>

screenVars ==
  <<showStartScreen, showCountdown, countdown, showSummary, pausado, showKeepTrying>>

scoreVars ==
  <<completedExercises, correctWordsTotal, incorrectWordsTotal, currentExercise>>

clockVars == <<tiempoRestante, timeoutHandledRef, transitionTimeout, timeouts>>

gameVars ==
  <<configVars, boardVars, congratsVars, screenVars, scoreVars, clockVars,
    validationHandledRef, hideTimeouts, tiempoAtPause>>

searchVars == <<perm, seedK, heap, stack, spc, placeCall>>

vars == <<genVars, selVars, gameVars, searchVars>>

----------------------------------------------------------------------------
(* Bounds of the model and the input universe                              *)

MaxWords == 3
MaxDim == 3

\* The answers the word lists are drawn from (normalized: upper case A-Z).
Pool ==
  << <<"A">>, <<"A", "A">>, <<"A", "B">>, <<"A", "B", "A">>, <<"C">> >>

\* A word list: the pool words at the chosen pool positions, in pool order,
\* each with a clue that identifies its pool position.
WordList(S) ==
  LET pick[k \in 0..Len(Pool)] ==
        IF k = 0 THEN <<>>
        ELSE pick[k - 1]
             \o (IF k \in S THEN <<[answer |-> Pool[k], clue |-> k]>> ELSE <<>>)
  IN pick[Len(Pool)]

\* A square board, as the tiers have, and one with fewer columns than rows.
Boards == {<<MaxDim, MaxDim>>, <<MaxDim, MaxDim - 1>>}

\* Words of at most 5 letters for pairs on a board of 5 rows and columns:
\* CAT and CAR share two letters, the third word shares none with them, the
\* fourth shares its last letter with the first letter of CAT and of CAR,
\* and the last has one letter.
PairPool ==
  << <<"C", "A", "T">>, <<"C", "A", "R">>, <<"D", "O", "G">>,
     <<"Z", "Z", "Z", "Z", "C">>, <<"A">> >>

PairCalls ==
  {[words |-> <<[answer |-> PairPool[i], clue |-> i], [answer |-> PairPool[j], clue |-> j]>>,
    rows |-> 5, cols |-> 5] : i \in 1..Len(PairPool), j \in 1..Len(PairPool)} \
  {[words |-> <<[answer |-> PairPool[i], clue |-> i], [answer |-> PairPool[i], clue |-> i]>>,
    rows |-> 5, cols |-> 5] : i \in 1..Len(PairPool)}

----------------------------------------------------------------------------
(* Helpers of generateCrossword                                            *)

MAX_RESTARTS == 600

\* A character is a string: an ASCII character is itself, any other
\* character is named by its code point ("U+00C5"). The characters of the
\* model are those of ASCII and of Latin-1, U+0131, U+017F and U+221A.
\* The letters among them that toUpperCase changes into one character, and
\* that character at the same position.
LowerCase ==
  << "a", "b", "c", "d", "e", "f", "g", "h",
     "i", "j", "k", "l", "m", "n", "o", "p",
     "q", "r", "s", "t", "u", "v", "w", "x",
     "y", "z", "U+00B5", "U+00E0", "U+00E1", "U+00E2", "U+00E3", "U+00E4",
     "U+00E5", "U+00E6", "U+00E7", "U+00E8", "U+00E9", "U+00EA", "U+00EB", "U+00EC",
     "U+00ED", "U+00EE", "U+00EF", "U+00F0", "U+00F1", "U+00F2", "U+00F3", "U+00F4",
     "U+00F5", "U+00F6", "U+00F8", "U+00F9", "U+00FA", "U+00FB", "U+00FC", "U+00FD",
     "U+00FE", "U+00FF", "U+0131", "U+017F" >>

UpperCase ==
  << "A", "B", "C", "D", "E", "F", "G", "H",
     "I", "J", "K", "L", "M", "N", "O", "P",
     "Q", "R", "S", "T", "U", "V", "W", "X",
     "Y", "Z", "U+039C", "U+00C0", "U+00C1", "U+00C2", "U+00C3", "U+00C4",
     "U+00C5", "U+00C6", "U+00C7", "U+00C8", "U+00C9", "U+00CA", "U+00CB", "U+00CC",
     "U+00CD", "U+00CE", "U+00CF", "U+00D0", "U+00D1", "U+00D2", "U+00D3", "U+00D4",
     "U+00D5", "U+00D6", "U+00D8", "U+00D9", "U+00DA", "U+00DB", "U+00DC", "U+00DD",
     "U+00DE", "U+0178", "I", "S" >>

\* ch.toUpperCase() of a string of at most one character: U+00DF becomes the
\* two characters "SS".
Upper(ch) ==
  IF ch = "U+00DF" THEN "SS"
  ELSE IF \E i \in DOMAIN LowerCase : LowerCase[i] = ch
       THEN UpperCase[CHOOSE i \in DOMAIN LowerCase : LowerCase[i] = ch]
       ELSE ch

\* s.toUpperCase() of a string s, a sequence of characters.
RECURSIVE toUpperCase(_)
toUpperCase(s) ==
  IF \A i \in DOMAIN s : s[i] # "U+00DF" THEN [i \in DOMAIN s |-> Upper(s[i])]
  ELSE toUpperCase(SubSeq(s, 1, Len(s) - 1))
       \o (IF s[Len(s)] = "U+00DF" THEN <<"S", "S">> ELSE <<Upper(s[Len(s)])>>)

makeGrid(nRows, nCols) == [r \in 0..(nRows - 1) |-> [c \in 0..(nCols - 1) |-> ""]]

inBounds(r, c, nRows, nCols) == r >= 0 /\ r < nRows /\ c >= 0 /\ c < nCols

\* canPlace without the test `existing && existing !== letter`.
canPlace_noLetterTest(grid, word, dir, sr, sc, nRows, nCols) ==
  LET len == Len(word)
      endR == sr + (IF dir = "down" THEN len - 1 ELSE 0)
      endC == sc + (IF dir = "across" THEN len - 1 ELSE 0)
  IN /\ inBounds(sr, sc, nRows, nCols) /\ inBounds(endR, endC, nRows, nCols)
     /\ IF dir = "across"
        THEN /\ ~(sc - 1 >= 0 /\ grid[sr][sc - 1] # "")
             /\ ~(sc + len < nCols /\ grid[sr][sc + len] # "")
        ELSE /\ ~(sr - 1 >= 0 /\ grid[sr - 1][sc] # "")
             /\ ~(sr + len < nRows /\ grid[sr + len][sc] # "")
     /\ \A i \in 0..(len - 1) :
          LET r == sr + (IF dir = "down" THEN i ELSE 0)
              c == sc + (IF dir = "across" THEN i ELSE 0)
              existing == grid[r][c]
          IN existing = "" =>
               IF dir = "across"
               THEN /\ ~(r - 1 >= 0 /\ grid[r - 1][c] # "")
                    /\ ~(r + 1 < nRows /\ grid[r + 1][c] # "")
               ELSE /\ ~(c - 1 >= 0 /\ grid[r][c - 1] # "")
                    /\ ~(c + 1 < nCols /\ grid[r][c + 1] # "")

\* canPlace without the test of the perpendicular neighbours of an empty cell.
canPlace_noNeighbourTest(grid, word, dir, sr, sc, nRows, nCols) ==
  LET len == Len(word)
      endR == sr + (IF dir = "down" THEN len - 1 ELSE 0)
      endC == sc + (IF dir = "across" THEN len - 1 ELSE 0)
  IN /\ inBounds(sr, sc, nRows, nCols) /\ inBounds(endR, endC, nRows, nCols)
     /\ IF dir = "across"
        THEN /\ ~(sc - 1 >= 0 /\ grid[sr][sc - 1] # "")
             /\ ~(sc + len < nCols /\ grid[sr][sc + len] # "")
        ELSE /\ ~(sr - 1 >= 0 /\ grid[sr - 1][sc] # "")
             /\ ~(sr + len < nRows /\ grid[sr + len][sc] # "")
     /\ \A i \in 0..(len - 1) :
          LET r == sr + (IF dir = "down" THEN i ELSE 0)
              c == sc + (IF dir = "across" THEN i ELSE 0)
              existing == grid[r][c]
          IN ~(existing # "" /\ existing # word[i + 1])

\* canPlace without the tests of the cells before the start and after the end.
canPlace_noEndTest(grid, word, dir, sr, sc, nRows, nCols) ==
  LET len == Len(word)
      endR == sr + (IF dir = "down" THEN len - 1 ELSE 0)
      endC == sc + (IF dir = "across" THEN len - 1 ELSE 0)
  IN /\ inBounds(sr, sc, nRows, nCols) /\ inBounds(endR, endC, nRows, nCols)
     /\ \A i \in 0..(len - 1) :
          LET r == sr + (IF dir = "down" THEN i ELSE 0)
              c == sc + (IF dir = "across" THEN i ELSE 0)
              letter == word[i + 1]
              existing == grid[r][c]
          IN /\ ~(existing # "" /\ existing # letter)
             /\ existing = "" =>
                  IF dir = "across"
                  THEN /\ ~(r - 1 >= 0 /\ grid[r - 1][c] # "")
                       /\ ~(r + 1 < nRows /\ grid[r + 1][c] # "")
                  ELSE /\ ~(c - 1 >= 0 /\ grid[r][c - 1] # "")
                       /\ ~(c + 1 < nCols /\ grid[r][c + 1] # "")

canPlace(grid, word, dir, sr, sc, nRows, nCols) ==
  LET len == Len(word)
      endR == sr + (IF dir = "down" THEN len - 1 ELSE 0)
      endC == sc + (IF dir = "across" THEN len - 1 ELSE 0)
  IN /\ inBounds(sr, sc, nRows, nCols) /\ inBounds(endR, endC, nRows, nCols)
     /\ IF dir = "across"
        THEN /\ ~(sc - 1 >= 0 /\ grid[sr][sc - 1] # "")
             /\ ~(sc + len < nCols /\ grid[sr][sc + len] # "")
        ELSE /\ ~(sr - 1 >= 0 /\ grid[sr - 1][sc] # "")
             /\ ~(sr + len < nRows /\ grid[sr + len][sc] # "")
     /\ \A i \in 0..(len - 1) :
          LET r == sr + (IF dir = "down" THEN i ELSE 0)
              c == sc + (IF dir = "across" THEN i ELSE 0)
              letter == word[i + 1]
              existing == grid[r][c]
          IN /\ ~(existing # "" /\ existing # letter)
             /\ existing = "" =>
                  IF dir = "across"
                  THEN /\ ~(r - 1 >= 0 /\ grid[r - 1][c] # "")
                       /\ ~(r + 1 < nRows /\ grid[r + 1][c] # "")
                  ELSE /\ ~(c - 1 >= 0 /\ grid[r][c - 1] # "")
                       /\ ~(c + 1 < nCols /\ grid[r][c + 1] # "")

\* applyPlace writing letter i one cell further along the word's axis.
applyPlace_shifted(grid, word, dir, sr, sc) ==
  [r \in DOMAIN grid |->
    [c \in DOMAIN grid[r] |->
      LET i == (IF dir = "down" THEN r - sr ELSE c - sc) - 1
      IN IF /\ i >= 0 /\ i < Len(word)
            /\ r = sr + (IF dir = "down" THEN i + 1 ELSE 0)
            /\ c = sc + (IF dir = "across" THEN i + 1 ELSE 0)
         THEN word[i + 1]
         ELSE grid[r][c]]]

\* A value the program computes once and then reads: the test f = f makes
\* TLC evaluate the function f once, here, and not at every f[x].
computed(f) == IF f = f THEN f ELSE f

\* The grid after the assignments grid[r][c] = word[i] of the loop.
applyPlace(grid, word, dir, sr, sc) ==
  computed([r \in DOMAIN grid |->
             [c \in DOMAIN grid[r] |->
               LET i == IF dir = "down" THEN r - sr ELSE c - sc
               IN IF /\ i >= 0 /\ i < Len(word)
                     /\ r = sr + (IF dir = "down" THEN i ELSE 0)
                     /\ c = sc + (IF dir = "across" THEN i ELSE 0)
                  THEN word[i + 1]
                  ELSE grid[r][c]]])

countOverlaps(grid, word, dir, sr, sc) ==
  Cardinality({i \in 0..(Len(word) - 1) :
    grid[sr + (IF dir = "down" THEN i ELSE 0)]
        [sc + (IF dir = "across" THEN i ELSE 0)] # ""})

cloneGrid(grid) == [r \in DOMAIN grid |-> [c \in DOMAIN grid[r] |-> grid[r][c]]]

\* The candidate start cells in the order the three nested loops push them
\* (r, then c, then j), before the shuffle: one operator per loop.
RECURSIVE candidatesOfCell(_, _, _, _, _, _)
candidatesOfCell(grid, word, dir, r, c, j) ==
  IF j >= Len(word) THEN <<>>
  ELSE (IF word[j + 1] = grid[r][c]
        THEN <<[r |-> IF dir = "across" THEN r ELSE r - j,
                c |-> IF dir = "across" THEN c - j ELSE c]>>
        ELSE <<>>)
       \o candidatesOfCell(grid, word, dir, r, c, j + 1)

RECURSIVE candidatesOfRow(_, _, _, _, _, _)
candidatesOfRow(grid, word, dir, r, c, nCols) ==
  IF c >= nCols THEN <<>>
  ELSE (IF grid[r][c] = "" THEN <<>> ELSE candidatesOfCell(grid, word, dir, r, c, 0))
       \o candidatesOfRow(grid, word, dir, r, c + 1, nCols)

RECURSIVE candidatesFrom(_, _, _, _, _, _)
candidatesFrom(grid, word, dir, r, nRows, nCols) ==
  IF r >= nRows THEN <<>>
  ELSE candidatesOfRow(grid, word, dir, r, 0, nCols)
       \o candidatesFrom(grid, word, dir, r + 1, nRows, nCols)

getCandidatesByCrossing(grid, word, dir, nRows, nCols) ==
  candidatesFrom(grid, word, dir, 0, nRows, nCols)

Range(s) == {s[i] : i \in DOMAIN s}

\* shuffle: the Fisher-Yates loop, i from a.length - 1 down to 1, j drawn from
\* 0..i; the set of the arrays it can return.
RECURSIVE shuffleFrom(_, _)
shuffleFrom(a, i) ==
  IF i <= 0 THEN {a}
  ELSE UNION {shuffleFrom([a EXCEPT ![i + 1] = a[j + 1], ![j + 1] = a[i + 1]], i - 1)
                : j \in 0..i}

shuffle(arr) == shuffleFrom(arr, Len(arr) - 1)

\* The id with one counter for both directions.
entryId_oneCounter(dir, nextAcross, nextDown) ==
  <<IF dir = "across" THEN "A" ELSE "D", nextAcross + nextDown>>

\* `${prefix}${numId}` of a word placed by backtrack.
entryId(dir, nextAcross, nextDown) ==
  <<IF dir = "across" THEN "A" ELSE "D",
    IF dir = "across" THEN nextAcross ELSE nextDown>>

\* The Entry object literal with row and col exchanged.
Entry_swapped(id, dir, r, c, w) ==
  [id |-> id, direction |-> dir, row |-> c, col |-> r,
   answer |-> w.answer, clue |-> w.clue]

\* The Entry object literal that loses the clue of its word.
Entry_noClue(id, dir, r, c, w) ==
  [id |-> id, direction |-> dir, row |-> r, col |-> c,
   answer |-> w.answer, clue |-> 0]

\* The Entry object literal.
Entry(id, dir, r, c, w) ==
  [id |-> id, direction |-> dir, row |-> r, col |-> c,
   answer |-> w.answer, clue |-> w.clue]

\* backtrack: what a call can return, over every order in which the shuffled
\* candidates can come. res is the set of Entry arrays it can return and null
\* tells whether it can return null. The for loop returns the result of the
\* first candidate that passes canPlace and countOverlaps and whose recursive
\* call does not return null; since any candidate can come first, every such
\* result can be returned, and null is returned when the call of every
\* candidate that is tried returns null (also when there is no candidate).
\* backtrack that places a word with no crossing candidate at any legal cell.
RECURSIVE backtrack_noCrossNeeded(_, _, _, _, _, _, _, _, _)
backtrack_noCrossNeeded(grid, idx, shuffled, directions, entries, acrossCount, downCount, nRows, nCols) ==
  IF idx >= Len(shuffled) THEN [res |-> {entries}, null |-> FALSE]
  ELSE
    LET w == shuffled[idx + 1]
        dir == directions[idx + 1]
        crossingCandidates == getCandidatesByCrossing(grid, w.answer, dir, nRows, nCols)
        tried == IF crossingCandidates = <<>>
                 THEN {cand \in [r : 0..(nRows - 1), c : 0..(nCols - 1)] :
                         canPlace(grid, w.answer, dir, cand.r, cand.c, nRows, nCols)}
                 ELSE {cand \in Range(crossingCandidates) :
                         /\ canPlace(grid, w.answer, dir, cand.r, cand.c, nRows, nCols)
                         /\ ~(countOverlaps(grid, w.answer, dir, cand.r, cand.c) < 1)}
        nextAcross == IF dir = "across" THEN acrossCount + 1 ELSE acrossCount
        nextDown == IF dir = "down" THEN downCount + 1 ELSE downCount
        call == [cand \in tried |->
                   backtrack_noCrossNeeded(
                     applyPlace(cloneGrid(grid), w.answer, dir, cand.r, cand.c),
                     idx + 1, shuffled, directions,
                     Append(entries, Entry(entryId(dir, nextAcross, nextDown),
                                           dir, cand.r, cand.c, w)),
                     nextAcross, nextDown, nRows, nCols)]
    IN [res |-> UNION {call[cand].res : cand \in tried},
        null |-> \A cand \in tried : call[cand].null]

RECURSIVE backtrack(_, _, _, _, _, _, _, _, _)
backtrack(grid, idx, shuffled, directions, entries, acrossCount, downCount, nRows, nCols) ==
  IF idx >= Len(shuffled) THEN [res |-> {entries}, null |-> FALSE]
  ELSE
    LET w == shuffled[idx + 1]
        dir == directions[idx + 1]
        crossingCandidates == getCandidatesByCrossing(grid, w.answer, dir, nRows, nCols)
        tried == {cand \in Range(crossingCandidates) :
                    /\ canPlace(grid, w.answer, dir, cand.r, cand.c, nRows, nCols)
                    /\ ~(countOverlaps(grid, w.answer, dir, cand.r, cand.c) < 1)}
        nextAcross == IF dir = "across" THEN acrossCount + 1 ELSE acrossCount
        nextDown == IF dir = "down" THEN downCount + 1 ELSE downCount
        call == [cand \in tried |->
                   backtrack(applyPlace(cloneGrid(grid), w.answer, dir, cand.r, cand.c),
                             idx + 1, shuffled, directions,
                             Append(entries, Entry(entryId(dir, nextAcross, nextDown),
                                                   dir, cand.r, cand.c, w)),
                             nextAcross, nextDown, nRows, nCols)]
    IN [res |-> UNION {call[cand].res : cand \in tried},
        null |-> \A cand \in tried : call[cand].null]

\* The seed tried at the centred start cell only.
offsets_centreOnly == <<0, 0, 0, 0, 0>>

offsets == <<0, -1, 1, -2, 2>>

\* The two nested loops leaving at the first combination that fits, whether
\* backtrack returns a layout from it or not.
RECURSIVE seedLoop_firstFitOnly(_, _, _, _, _, _)
seedLoop_firstFitOnly(k, shuffled, directions, ws, nRows, nCols) ==
  IF k >= Len(offsets) * Len(offsets) THEN [res |-> {}, null |-> TRUE]
  ELSE
    LET first == shuffled[1]
        firstDir == directions[1]
        midR == nRows \div 2
        midC == nCols \div 2
        baseR == IF firstDir = "down" THEN midR - (Len(first.answer) \div 2) ELSE midR
        baseC == IF firstDir = "across" THEN midC - (Len(first.answer) \div 2) ELSE midC
        startR0 == baseR + offsets[(k \div Len(offsets)) + 1]
        startC0 == baseC + offsets[(k % Len(offsets)) + 1]
        grid == makeGrid(nRows, nCols)
    IN IF ~canPlace(grid, first.answer, firstDir, startR0, startC0, nRows, nCols)
       THEN seedLoop_firstFitOnly(k + 1, shuffled, directions, ws, nRows, nCols)
       ELSE
         LET g0 == applyPlace(cloneGrid(grid), first.answer, firstDir, startR0, startC0)
             id0 == <<IF firstDir = "across" THEN "A" ELSE "D", 1>>
             entries0 == <<Entry(id0, firstDir, startR0, startC0, first)>>
             across0 == IF firstDir = "across" THEN 1 ELSE 0
             down0 == IF firstDir = "down" THEN 1 ELSE 0
             out == backtrack(g0, 1, shuffled, directions, entries0, across0, down0,
                              nRows, nCols)
         IN [res |-> {res \in out.res : Len(res) = Len(ws)}, null |-> out.null]

\* The two nested loops over the offsets, from combination k on (dr is
\* offsets[k div 5], dc is offsets[k mod 5]): the set of the layouts `built`
\* can be after them (res), and whether it can still be null (null).
RECURSIVE seedLoop(_, _, _, _, _, _)
seedLoop(k, shuffled, directions, ws, nRows, nCols) ==
  IF k >= Len(offsets) * Len(offsets) THEN [res |-> {}, null |-> TRUE]
  ELSE
    LET first == shuffled[1]
        firstDir == directions[1]
        midR == nRows \div 2
        midC == nCols \div 2
        baseR == IF firstDir = "down" THEN midR - (Len(first.answer) \div 2) ELSE midR
        baseC == IF firstDir = "across" THEN midC - (Len(first.answer) \div 2) ELSE midC
        startR0 == baseR + offsets[(k \div Len(offsets)) + 1]
        startC0 == baseC + offsets[(k % Len(offsets)) + 1]
        grid == makeGrid(nRows, nCols)
    IN IF ~canPlace(grid, first.answer, firstDir, startR0, startC0, nRows, nCols)
       THEN seedLoop(k + 1, shuffled, directions, ws, nRows, nCols)
       ELSE
         LET g0 == applyPlace(cloneGrid(grid), first.answer, firstDir, startR0, startC0)
             id0 == <<IF firstDir = "across" THEN "A" ELSE "D", 1>>
             entries0 == <<Entry(id0, firstDir, startR0, startC0, first)>>
             across0 == IF firstDir = "across" THEN 1 ELSE 0
             down0 == IF firstDir = "down" THEN 1 ELSE 0
             out == backtrack(g0, 1, shuffled, directions, entries0, across0, down0,
                              nRows, nCols)
             full == {res \in out.res : Len(res) = Len(ws)}
             goesOn == out.null \/ full # out.res
             rest == seedLoop(k + 1, shuffled, directions, ws, nRows, nCols)
         IN [res |-> full \cup (IF goesOn THEN rest.res ELSE {}),
             null |-> goesOn /\ rest.null]

\* shuffle(words).map(w => ({...w, answer: w.answer.toUpperCase()}))
Shuffled(ws) ==
  {[i \in DOMAIN p |-> [answer |-> toUpperCase(p[i].answer), clue |-> p[i].clue]]
     : p \in shuffle(ws)}

\* The directions with Down at the even positions.
Directions_downFirst(shuffled) ==
  [i \in DOMAIN shuffled |-> IF (i - 1) % 2 = 0 THEN "down" ELSE "across"]

Directions(shuffled) ==
  [i \in DOMAIN shuffled |-> IF (i - 1) % 2 = 0 THEN "across" ELSE "down"]

\* The body of the restart loop for a non-empty word list: the layouts
\* `built` can be at its end (res) and whether it can be null (null).
restartBody(ws, nRows, nCols) ==
  LET out == [shuffled \in Shuffled(ws) |->
                seedLoop(0, shuffled, Directions(shuffled), ws, nRows, nCols)]
  IN [res |-> UNION {out[shuffled].res : shuffled \in DOMAIN out},
      null |-> \E shuffled \in DOMAIN out : out[shuffled].null]

\* The calls generateCrossword(words, rows, cols) of the model.
Calls ==
  {[words |-> WordList(S), rows |-> b[1], cols |-> b[2]] :
     S \in {T \in SUBSET (1..Len(Pool)) : Cardinality(T) <= MaxWords}, b \in Boards}
  \cup PairCalls

\* restartBody of every call with words. An iteration of the restart loop
\* reads words, rows and cols only (the grid, the order and the directions
\* are made anew), so its outcomes are the same in every iteration.
BuiltOf ==
  computed([call \in {x \in Calls : Len(x.words) # 0} |->
              restartBody(call.words, call.rows, call.cols)])

Built == BuiltOf[[words |-> words, rows |-> rows, cols |-> cols]]

EmptyCrossword == [rows |-> rows, cols |-> cols, entries |-> <<>>]

\* build before buildCrosswordForDifficulty has returned.
NoBuild ==
  [crossword |-> [rows |-> 0, cols |-> 0, entries |-> <<>>], selectedWords |-> <<>>,
   usableWords |-> <<>>, omittedWords |-> <<>>, requestedWords |-> 0, error |-> <<>>]

----------------------------------------------------------------------------
(* Home at mount                                                           *)

Difficulties == {"basic", "intermediate", "advanced"}

BOARD_SIZE_POR_DIFICULTAD == [basic |-> 9, intermediate |-> 12, advanced |-> 15]

getBoardDimensionsForDifficulty(d) ==
  LET size == BOARD_SIZE_POR_DIFICULTAD[d] IN [rows |-> size, cols |-> size]

null == <<>>

\* transitionTimeoutRef with no timer pending.
noTimeout == [pending |-> FALSE, wordResults |-> [correctWords |-> 0, incorrectWords |-> 0]]

\* The prop of Home: ({ difficulty = "intermediate" }).
difficultyProp == "intermediate"

\* The state of Home when it is mounted: the initial values of useState and
\* useRef, no timer pending.
HomeMount ==
  /\ configLoaded = FALSE /\ wordPool = <<>> /\ difficultyConfig = difficultyProp
  /\ configError = null /\ dataNivel = ""
  /\ crossword = [rows |-> getBoardDimensionsForDifficulty(difficultyProp).rows,
                  cols |-> getBoardDimensionsForDifficulty(difficultyProp).cols,
                  entries |-> <<>>]
  /\ expected = <<>> /\ letters = <<>>
  /\ showStartScreen = TRUE /\ showCountdown = FALSE /\ countdown = 5
  /\ showSummary = FALSE /\ pausado = FALSE
  /\ showKeepTrying = FALSE /\ showCongrats = FALSE
  /\ tiempoRestante = 0 /\ puntuacionTotal = 0 /\ completedExercises = 0
  /\ correctWordsTotal = 0 /\ incorrectWordsTotal = 0 /\ currentExercise = 1
  /\ timeoutHandledRef = FALSE /\ validationHandledRef = FALSE
  /\ transitionTimeout = noTimeout /\ congratsTimeouts = <<>> /\ hideTimeouts = 0
  /\ completions = 0 /\ timeouts = 0 /\ tiempoAtPause = 0

\* No call of canPlace yet.
noCall ==
  [made |-> FALSE, grid |-> <<>>, word |-> <<>>, dir |-> "across", sr |-> 0, sc |-> 0,
   ok |-> FALSE, reads |-> {}]

\* No iteration of the restart loop is followed call by call.
SearchIdle ==
  /\ perm = <<>> /\ seedK = 0 /\ heap = <<>> /\ stack = <<>> /\ spc = "idle"
  /\ placeCall = noCall

----------------------------------------------------------------------------
(* generateCrossword                                                       *)

Init ==
  /\ \E call \in Calls : words = call.words /\ rows = call.rows /\ cols = call.cols
  /\ pc = "call"
  /\ restart = 0
  /\ result = [rows |-> rows, cols |-> cols, entries |-> <<>>]
  /\ poolWords = <<>> /\ difficulty = "basic" /\ bpc = "idle" /\ attempt = 0
  /\ invoked = FALSE /\ build = NoBuild
  /\ HomeMount
  /\ SearchIdle

\* if (words.length === 0) return { rows, cols, entries: [] }
ReturnNoWords ==
  /\ pc = "call"
  /\ Len(words) = 0
  /\ result' = EmptyCrossword
  /\ pc' = "done"
  /\ UNCHANGED <<words, rows, cols, restart, selVars, gameVars, searchVars>>

\* Entering the restart loop with restart = 0.
EnterLoop ==
  /\ pc = "call"
  /\ Len(words) # 0
  /\ pc' = "loop"
  /\ UNCHANGED <<words, rows, cols, restart, result, selVars, gameVars, searchVars>>

\* One iteration of the restart loop that ends with `built` set: return it.
RestartBuilt ==
  /\ pc = "loop"
  /\ restart < MAX_RESTARTS
  /\ \E res \in Built.res : result' = [rows |-> rows, cols |-> cols, entries |-> res]
  /\ pc' = "done"
  /\ restart' = 0
  /\ UNCHANGED <<words, rows, cols, selVars, gameVars, searchVars>>

\* One iteration of the restart loop that ends with `built` null: restart++.
RestartFailed ==
  /\ pc = "loop"
  /\ restart < MAX_RESTARTS
  /\ Built.null
  /\ restart' = restart + 1
  /\ UNCHANGED <<words, rows, cols, pc, result, selVars, gameVars, searchVars>>

\* The loop ends without a layout: return { rows, cols, entries: [] }.
\* The loop left one iteration early (restart < MAX_RESTARTS - 1 as its test).
ReturnExhausted_oneEarly ==
  /\ pc = "loop"
  /\ ~(restart < MAX_RESTARTS - 1)
  /\ result' = EmptyCrossword
  /\ pc' = "done"
  /\ restart' = 0
  /\ UNCHANGED <<words, rows, cols, selVars, gameVars, searchVars>>

ReturnExhausted ==
  /\ pc = "loop"
  /\ ~(restart < MAX_RESTARTS)
  /\ result' = EmptyCrossword
  /\ pc' = "done"
  /\ restart' = 0
  /\ UNCHANGED <<words, rows, cols, selVars, gameVars, searchVars>>

----------------------------------------------------------------------------
(* Board data that Home derives from a layout (useMemo over crossword)     *)

keyOf(r, c) == <<r, c>>

\* The cell of letter i of an entry (r and c of the loops over the letters).
cellOf(entry, i) ==
  keyOf(entry.row + (IF entry.direction = "down" THEN i ELSE 0),
        entry.col + (IF entry.direction = "across" THEN i ELSE 0))

entryCells(entry) == {cellOf(entry, i) : i \in 0..(Len(entry.answer) - 1)}

boardKeys(cw) == {keyOf(r, c) : r \in 0..(cw.rows - 1), c \in 0..(cw.cols - 1)}

\* expected[k] = entry.answer[i], entry after entry: the last entry that
\* covers a cell decides its letter; "" where no entry wrote (undefined).
expectedByCell(cw) ==
  LET keys == boardKeys(cw) \cup UNION {entryCells(cw.entries[n]) : n \in DOMAIN cw.entries}
      writers(k) == {n \in DOMAIN cw.entries : k \in entryCells(cw.entries[n])}
      last(k) == CHOOSE n \in writers(k) : \A m \in writers(k) : m <= n
      letter(entry, k) ==
        entry.answer[(CHOOSE i \in 0..(Len(entry.answer) - 1) : cellOf(entry, i) = k) + 1]
  IN [k \in keys |-> IF writers(k) = {} THEN "" ELSE letter(cw.entries[last(k)], k)]

starts(cw) == {keyOf(cw.entries[n].row, cw.entries[n].col) : n \in DOMAIN cw.entries}

\* The scan column after column instead of row after row.
RECURSIVE numbersFrom_columnMajor(_, _, _)
numbersFrom_columnMajor(cw, k, n) ==
  IF k >= cw.rows * cw.cols THEN {}
  ELSE LET key == keyOf(k % cw.rows, k \div cw.rows)
       IN IF key \in starts(cw)
          THEN {<<key, n>>} \cup numbersFrom_columnMajor(cw, k + 1, n + 1)
          ELSE numbersFrom_columnMajor(cw, k + 1, n)

\* The row-major scan from cell index k on, with the counter at n: the pairs
\* <<key, number>> that numbers[k] = n++ assigns.
RECURSIVE numbersFrom(_, _, _)
numbersFrom(cw, k, n) ==
  IF k >= cw.rows * cw.cols THEN {}
  ELSE LET key == keyOf(k \div cw.cols, k % cw.cols)
       IN IF key \in starts(cw)
          THEN {<<key, n>>} \cup numbersFrom(cw, k + 1, n + 1)
          ELSE numbersFrom(cw, k + 1, n)

cellNumbers(cw) ==
  LET pairs == numbersFrom(cw, 0, 1)
  IN [key \in {p[1] : p \in pairs} |-> (CHOOSE p \in pairs : p[1] = key)[2]]

\* cellNumbers[keyOf(e.row, e.col)] ?? 0
entryNumber(cw, e) ==
  IF keyOf(e.row, e.col) \in DOMAIN cellNumbers(cw)
  THEN cellNumbers(cw)[keyOf(e.row, e.col)]
  ELSE 0

Next == ReturnNoWords \/ EnterLoop \/ RestartBuilt \/ RestartFailed \/ ReturnExhausted

Spec == Init /\ [][Next]_vars

\* generateCrossword is synchronous code: a step that can be taken is taken.
FairSpec == Spec /\ WF_vars(Next)

----------------------------------------------------------------------------
(* buildCrosswordForDifficulty                                             *)

PALABRAS_POR_DIFICULTAD == [basic |-> 5, intermediate |-> 10, advanced |-> 15]

MAX_SELECTION_ATTEMPTS == 300

Max(a, b) == IF a > b THEN a ELSE b

maxWordLength(d) ==
  Max(getBoardDimensionsForDifficulty(d).rows, getBoardDimensionsForDifficulty(d).cols)

\* The filter with < for <=.
usableWordsOf_strict(ws, d) == SelectSeq(ws, LAMBDA w : Len(w.answer) < maxWordLength(d))

\* words.filter(...): the words that pass, in the order of the list.
usableWordsOf(ws, d) == SelectSeq(ws, LAMBDA w : Len(w.answer) <= maxWordLength(d))

omittedWordsOf(ws, d) == SelectSeq(ws, LAMBDA w : Len(w.answer) > maxWordLength(d))

\* The two error messages, as the pieces of their template strings.
insufficientError(d, requestedWords) ==
  <<"No hay suficientes palabras para el nivel ", d, " (", requestedWords, " requeridas).">>

notBuiltError(d, requestedWords) ==
  <<"No se pudo construir un crucigrama de ", requestedWords, " palabras para el nivel ", d, ".">>

\* shuffle(usableWords).slice(0, requestedWords): the lists it can be.
selections(usable, requestedWords) ==
  {SubSeq(s, 1, requestedWords) : s \in shuffle(usable)}

\* The words of the model, for boards of 9 rows and columns: ThreeAcross are
\* three words that cross each of the two words of TwoDown (at the columns 2
\* and 6 and the rows 2, 4 and 6) and share no letter with each other.
Rep(ch, n) == [i \in 1..n |-> ch]

ThreeAcross ==
  << <<"P", "P", "A", "P", "P", "P", "B", "P", "P">>,
     <<"Q", "Q", "C", "Q", "Q", "Q", "D", "Q", "Q">>,
     <<"R", "R", "E", "R", "R", "R", "F", "R", "R">> >>

TwoDown ==
  << <<"S", "S", "A", "S", "C", "S", "E", "S", "S">>,
     <<"T", "T", "B", "T", "D", "T", "F", "T", "T">> >>

\* Five words of length 9 of which no two share a letter.
Apart == <<Rep("A", 9), Rep("B", 9), Rep("C", 9), Rep("D", 9), Rep("E", 9)>>

\* Words of the lengths around the board sizes 9, 12 and 15.
Lengths == <<Rep("L", 9), Rep("L", 10), Rep("L", 12), Rep("L", 13), Rep("L", 15), Rep("L", 16)>>

\* Four times the same word of one letter, and a word of two letters that
\* starts with it (a pool may hold a word more than once): the layouts of
\* these five words have two cells.
Twin ==
  [i \in 1..5 |-> IF i < 5 THEN [answer |-> <<"A">>, clue |-> 1]
                           ELSE [answer |-> <<"A", "B">>, clue |-> 2]]

\* The word list of the answers: the clue of a word is its position.
MkPool(answers) == [i \in DOMAIN answers |-> [answer |-> answers[i], clue |-> i]]

BuildPools ==
  { MkPool(<<>>),
    MkPool(ThreeAcross \o <<Rep("Z", 10)>> \o TwoDown),
    MkPool(Apart),
    Twin,
    MkPool(SubSeq(ThreeAcross, 1, 2) \o <<Rep("Z", 16)>> \o SubSeq(TwoDown, 1, 1)),
    MkPool(ThreeAcross \o <<Rep("Z", 10)>> \o SubSeq(TwoDown, 1, 1)),
    MkPool(Lengths) }

\* The calls buildCrosswordForDifficulty(words, difficulty) of the model.
BuildCalls == {[words |-> p, difficulty |-> d] : p \in BuildPools, d \in Difficulties}

\* restartBody of every word list that a call of the model can select. The
\* body starts by shuffling the list, so it is the same for every order of
\* the same words; the lists are told apart by their words (the clues of a
\* pool of the model are distinct).
SelectedBuiltOf ==
  LET lists == UNION {
        LET usable == usableWordsOf(call.words, call.difficulty)
            requestedWords == PALABRAS_POR_DIFICULTAD[call.difficulty]
        IN IF Len(usable) < requestedWords THEN {}
           ELSE {[words |-> sel,
                  rows |-> getBoardDimensionsForDifficulty(call.difficulty).rows,
                  cols |-> getBoardDimensionsForDifficulty(call.difficulty).cols]
                   : sel \in selections(usable, requestedWords)}
        : call \in BuildCalls}
      keys == {[words |-> Range(l.words), rows |-> l.rows, cols |-> l.cols] : l \in lists}
      listOf(k) == CHOOSE l \in lists :
                     Range(l.words) = k.words /\ l.rows = k.rows /\ l.cols = k.cols
  IN computed([k \in keys |-> restartBody(listOf(k).words, k.rows, k.cols)])

\* return built ?? { rows, cols, entries: [] } after the restart loop: the
\* entries returned when b is the outcome of every restart.
returnedEntries(b) == b.res \cup (IF b.null THEN {<<>>} ELSE {})

\* generateCrossword(ws, nRows, nCols) as buildCrosswordForDifficulty calls
\* it: the entries of the layouts it can return. It returns what a restart
\* builds, and no entries when there are no words or when every one of the
\* MAX_RESTARTS restarts ends with built null.
generateCrossword(ws, nRows, nCols) ==
  IF Len(ws) = 0 THEN {<<>>}
  ELSE returnedEntries(SelectedBuiltOf[[words |-> Range(ws), rows |-> nRows, cols |-> nCols]])

usableWords == usableWordsOf(poolWords, difficulty)

omittedWords == omittedWordsOf(poolWords, difficulty)

requestedWords == PALABRAS_POR_DIFICULTAD[difficulty]

BuildInit ==
  /\ \E call \in BuildCalls : poolWords = call.words /\ difficulty = call.difficulty
  /\ bpc = "call"
  /\ attempt = 0
  /\ invoked = FALSE
  /\ build = NoBuild
  /\ words = <<>> /\ rows = 0 /\ cols = 0 /\ pc = "done" /\ restart = 0
  /\ result = [rows |-> 0, cols |-> 0, entries |-> <<>>]
  /\ HomeMount
  /\ SearchIdle

\* The early return taken after a call of generateCrossword.
BuildInsufficient_invokes ==
  /\ bpc = "call"
  /\ Len(usableWords) < requestedWords
  /\ build' = [crossword |-> [rows |-> getBoardDimensionsForDifficulty(difficulty).rows,
                              cols |-> getBoardDimensionsForDifficulty(difficulty).cols,
                              entries |-> <<>>],
               selectedWords |-> <<>>,
               usableWords |-> usableWords,
               omittedWords |-> omittedWords,
               requestedWords |-> requestedWords,
               error |-> insufficientError(difficulty, requestedWords)]
  /\ bpc' = "done"
  /\ invoked' = TRUE
  /\ UNCHANGED <<poolWords, difficulty, attempt, genVars, gameVars, searchVars>>

\* if (usableWords.length < requestedWords) return { ..., error }
BuildInsufficient ==
  /\ bpc = "call"
  /\ Len(usableWords) < requestedWords
  /\ build' = [crossword |-> [rows |-> getBoardDimensionsForDifficulty(difficulty).rows,
                              cols |-> getBoardDimensionsForDifficulty(difficulty).cols,
                              entries |-> <<>>],
               selectedWords |-> <<>>,
               usableWords |-> usableWords,
               omittedWords |-> omittedWords,
               requestedWords |-> requestedWords,
               error |-> insufficientError(difficulty, requestedWords)]
  /\ bpc' = "done"
  /\ UNCHANGED <<poolWords, difficulty, attempt, invoked, genVars, gameVars, searchVars>>

\* Entering the attempt loop with attempt = 0.
BuildEnterLoop ==
  /\ bpc = "call"
  /\ ~(Len(usableWords) < requestedWords)
  /\ bpc' = "loop"
  /\ UNCHANGED <<poolWords, difficulty, attempt, invoked, build, genVars, gameVars, searchVars>>

\* The layouts generateCrossword(selectedWords, rows, cols) of an attempt can return.
attemptCrosswords(selectedWords) ==
  LET board == getBoardDimensionsForDifficulty(difficulty)
  IN {[rows |-> board.rows, cols |-> board.cols, entries |-> entries] :
        entries \in generateCrossword(selectedWords, board.rows, board.cols)}

\* The attempt that returns a layout whatever its number of entries.
AttemptBuilt_anySize ==
  /\ bpc = "loop"
  /\ attempt < MAX_SELECTION_ATTEMPTS
  /\ LET usable == usableWords
         omitted == omittedWords
     IN \E selectedWords \in selections(usable, requestedWords) :
          \E attemptCrossword \in attemptCrosswords(selectedWords) :
            /\ build' = [crossword |-> attemptCrossword,
                         selectedWords |-> selectedWords,
                         usableWords |-> usable,
                         omittedWords |-> omitted,
                         requestedWords |-> requestedWords,
                         error |-> null]
  /\ bpc' = "done"
  /\ attempt' = 0
  /\ invoked' = TRUE
  /\ UNCHANGED <<poolWords, difficulty, genVars, gameVars, searchVars>>

\* An attempt whose layout has requestedWords entries: return it.
AttemptBuilt ==
  /\ bpc = "loop"
  /\ attempt < MAX_SELECTION_ATTEMPTS
  /\ LET usable == usableWords
         omitted == omittedWords
     IN \E selectedWords \in selections(usable, requestedWords) :
          \E attemptCrossword \in attemptCrosswords(selectedWords) :
            /\ Len(attemptCrossword.entries) = requestedWords
            /\ build' = [crossword |-> attemptCrossword,
                         selectedWords |-> selectedWords,
                         usableWords |-> usable,
                         omittedWords |-> omitted,
                         requestedWords |-> requestedWords,
                         error |-> null]
  /\ bpc' = "done"
  /\ attempt' = 0
  /\ invoked' = TRUE
  /\ UNCHANGED <<poolWords, difficulty, genVars, gameVars, searchVars>>

\* An attempt whose layout has another number of entries: attempt++.
AttemptFailed ==
  /\ bpc = "loop"
  /\ attempt < MAX_SELECTION_ATTEMPTS
  /\ \E selectedWords \in selections(usableWords, requestedWords) :
       \E attemptCrossword \in attemptCrosswords(selectedWords) :
         Len(attemptCrossword.entries) # requestedWords
  /\ attempt' = attempt + 1
  /\ invoked' = TRUE
  /\ UNCHANGED <<poolWords, difficulty, bpc, build, genVars, gameVars, searchVars>>

\* The attempt loop left one attempt early.
BuildExhausted_oneEarly ==
  /\ bpc = "loop"
  /\ ~(attempt < MAX_SELECTION_ATTEMPTS - 1)
  /\ build' = [crossword |-> [rows |-> getBoardDimensionsForDifficulty(difficulty).rows,
                              cols |-> getBoardDimensionsForDifficulty(difficulty).cols,
                              entries |-> <<>>],
               selectedWords |-> <<>>,
               usableWords |-> usableWords,
               omittedWords |-> omittedWords,
               requestedWords |-> requestedWords,
               error |-> notBuiltError(difficulty, requestedWords)]
  /\ bpc' = "done"
  /\ attempt' = 0
  /\ UNCHANGED <<poolWords, difficulty, invoked, genVars, gameVars, searchVars>>

\* The loop ends without a layout: return { ..., error }.
BuildExhausted ==
  /\ bpc = "loop"
  /\ ~(attempt < MAX_SELECTION_ATTEMPTS)
  /\ build' = [crossword |-> [rows |-> getBoardDimensionsForDifficulty(difficulty).rows,
                              cols |-> getBoardDimensionsForDifficulty(difficulty).cols,
                              entries |-> <<>>],
               selectedWords |-> <<>>,
               usableWords |-> usableWords,
               omittedWords |-> omittedWords,
               requestedWords |-> requestedWords,
               error |-> notBuiltError(difficulty, requestedWords)]
  /\ bpc' = "done"
  /\ attempt' = 0
  /\ UNCHANGED <<poolWords, difficulty, invoked, genVars, gameVars, searchVars>>

BuildNext ==
  BuildInsufficient \/ BuildEnterLoop \/ AttemptBuilt \/ AttemptFailed \/ BuildExhausted

BuildSpec == BuildInit /\ [][BuildNext]_vars

\* The calls of generateCrossword and of buildCrosswordForDifficulty together.
GenBuildInit == Init \/ BuildInit

GenBuildNext == Next \/ BuildNext

GenBuildSpec == GenBuildInit /\ [][GenBuildNext]_vars

----------------------------------------------------------------------------
(* Home: the configuration load, the rounds of the game, the clock         *)
(*                                                                         *)
(* An action is a handler, or the callback of a timer, together with the   *)
(* effects of the render that follows it. The state values that are never  *)
(* set to another value than their initial one are left out: showFeedback  *)
(* (false), activeButtonIndex (null), isComplete (true); so is the overlay *)
(* of the instructions, which the model does not open.                     *)

TIEMPO_POR_DIFICULTAD == [basic |-> 600, intermediate |-> 1200, advanced |-> 1800]

EJERCICIOS_POR_DIFICULTAD == [basic |-> 1, intermediate |-> 1, advanced |-> 1]

PUNTOS_POR_DIFICULTAD == [basic |-> 10, intermediate |-> 15, advanced |-> 20]

numExercises == EJERCICIOS_POR_DIFICULTAD[difficultyConfig]

\* The result of buildCrosswordForDifficulty with the layout entries.
buildResult(d, entries, selectedWords, usable, omitted, requested, error) ==
  [crossword |-> [rows |-> getBoardDimensionsForDifficulty(d).rows,
                  cols |-> getBoardDimensionsForDifficulty(d).cols,
                  entries |-> entries],
   selectedWords |-> selectedWords,
   usableWords |-> usable,
   omittedWords |-> omitted,
   requestedWords |-> requested,
   error |-> error]

\* The results of the attempt loop: an attempt that builds a layout of all
\* the requested words returns it; the loop ends without one when every one
\* of its attempts fails, which it can when one attempt can.
loopResults(d, usable, omitted, requested) ==
  UNION {{buildResult(d, entries, selectedWords, usable, omitted, requested, null) :
            entries \in {e \in generateCrossword(selectedWords,
                                                 getBoardDimensionsForDifficulty(d).rows,
                                                 getBoardDimensionsForDifficulty(d).cols) :
                           Len(e) = requested}} :
           selectedWords \in selections(usable, requested)}
  \cup
  (IF \E selectedWords \in selections(usable, requested) :
        \E e \in generateCrossword(selectedWords,
                                   getBoardDimensionsForDifficulty(d).rows,
                                   getBoardDimensionsForDifficulty(d).cols) :
          Len(e) # requested
   THEN {buildResult(d, <<>>, <<>>, usable, omitted, requested, notBuiltError(d, requested))}
   ELSE {})

resultsOf(d, usable, omitted, requested) ==
  IF Len(usable) < requested
  THEN {buildResult(d, <<>>, <<>>, usable, omitted, requested, insufficientError(d, requested))}
  ELSE loopResults(d, usable, omitted, requested)

\* buildCrosswordForDifficulty(ws, d) as Home calls it: the results it can
\* return.
buildCrosswordForDifficulty(ws, d) ==
  resultsOf(d, usableWordsOf(ws, d), omittedWordsOf(ws, d), PALABRAS_POR_DIFICULTAD[d])

\* The word lists of the configurations of the model (wordsFromConfig).
ConfigWords == {MkPool(<<>>), Twin, MkPool(Apart)}

HomeCalls ==
  {[words |-> ws, difficulty |-> d] : ws \in ConfigWords \ {<<>>}, d \in Difficulties}

\* The fields of a result that Home reads to set its state (it logs the
\* others).
readByHome(results) ==
  {[crossword |-> b.crossword, usableWords |-> b.usableWords, error |-> b.error] :
     b \in results}

BuildResultsOf ==
  computed([call \in HomeCalls |->
              readByHome(buildCrosswordForDifficulty(call.words, call.difficulty))])

\* data.nivel of the configurations of the model ("" when it is missing).
Niveles == {"", "BASIC", "intermedio", "avanzado", "otro"}

\* nivel.toLowerCase() on Niveles.
toLowerCase(nivel) == IF nivel = "BASIC" THEN "basic" ELSE nivel

normalizarNivelConfig(nivel) ==
  CASE toLowerCase(nivel) \in {"basico", "basic"} -> "basic"
    [] toLowerCase(nivel) \in {"intermedio", "intermediate"} -> "intermediate"
    [] toLowerCase(nivel) \in {"avanzado", "advanced"} -> "advanced"
    [] OTHER -> "basic"

\* The outcomes of fetch and res.json() with the words extracted from it.
\* ok is FALSE when no document is read (res.ok is false, or fetch or
\* res.json() throws); throws is TRUE for a document on which a statement
\* after setDifficultyConfig throws (data.plataformas that is no array, a
\* null among the words).
Configs ==
  {[ok |-> FALSE, nivel |-> "", words |-> <<>>, throws |-> FALSE]}
  \cup {[ok |-> TRUE, nivel |-> n, words |-> ws, throws |-> FALSE] :
          n \in Niveles, ws \in ConfigWords}
  \cup {[ok |-> TRUE, nivel |-> n, words |-> <<>>, throws |-> TRUE] : n \in Niveles}

loadError == <<"No se pudo cargar crucigrama-config.json.">>

noWordsError == <<"El archivo crucigrama-config.json no contiene palabras validas.">>

\* The characters the class of the regexp of normalizeLetter holds, as it is
\* written in the source: A-Z and the characters U+221A, U+00EB, U+00C5,
\* U+00E2, U+00E7, U+00EC, U+00F6 (the class holds none of U+00D1, U+00C1,
\* U+00C9, U+00CD, U+00D3, U+00DA).
LetterPattern ==
  {"A", "B", "C", "D", "E", "F", "G", "H", "I", "J", "K", "L", "M", "N", "O", "P", "Q",
   "R", "S", "T", "U", "V", "W", "X", "Y", "Z",
   "U+221A", "U+00EB", "U+00C5", "U+00E2", "U+00E7", "U+00EC", "U+00F6"}

\* normalizeLetter(raw): raw is the value of the input, a sequence of
\* characters; slice(-1) is its last character.
normalizeLetter(raw) ==
  IF Len(raw) = 0 THEN ""
  ELSE IF Upper(raw[Len(raw)]) \in LetterPattern THEN Upper(raw[Len(raw)]) ELSE ""

\* letters[k] ?? ""
letterAt(ls, k) == IF k \in DOMAIN ls THEN ls[k] ELSE ""

\* { ...prev, [k]: value }
withLetter(ls, k, value) ==
  [x \in DOMAIN ls \cup {k} |-> IF x = k THEN value ELSE ls[x]]

\* s.trim() of a string of at most one character.
trim(s) == IF s = " " THEN "" ELSE s

\* The entries of expectedByCell that hold a letter: the keys of the object.
definedKeys(e) == [k \in {x \in DOMAIN e : e[x] # ""} |-> e[k]]

expectedOf(cw) == definedKeys(expectedByCell(cw))

\* The validation effect for letters ls and expectedByCell exp when
\* validationHandledRef.current is handled: the new value of the ref, and
\* whether the effect handles "all correct" (fire).
validationEffect(ls, exp, handled) ==
  IF DOMAIN exp = {} THEN [handled |-> handled, fire |-> FALSE]
  ELSE IF ~(\A k \in DOMAIN exp : trim(letterAt(ls, k)) # "")
       THEN [handled |-> FALSE, fire |-> FALSE]
       ELSE IF \A k \in DOMAIN exp : Upper(letterAt(ls, k)) = exp[k]
            THEN [handled |-> TRUE, fire |-> ~handled]
            ELSE [handled |-> handled, fire |-> FALSE]

\* calculateWordResults(entries, userLetters, expectedLetters)
calculateWordResults(entries, userLetters, expectedLetters) ==
  [correctWords |->
     Cardinality({n \in DOMAIN entries :
                    \A k \in entryCells(entries[n]) :
                      Upper(letterAt(userLetters, k)) = expectedLetters[k]}),
   incorrectWords |->
     Max(Len(entries)
         - Cardinality({n \in DOMAIN entries :
                          \A k \in entryCells(entries[n]) :
                            Upper(letterAt(userLetters, k)) = expectedLetters[k]}), 0)]

\* Bounds of the model: the cells the user types anything into (the other
\* cells are typed in order, with their letter), the seconds left on the
\* clock when the user types or pauses (the last seconds of a round), the
\* handlings of "all correct" for one layout, the pending timers of one kind.
MaxFreeCells == 1

MaxBusySeconds == 2

MaxCompletions == 2

MaxTimeouts == 2

\* The allCorrect branch of the validation effect when it is taken (fire):
\* setShowCongrats(true), the points, the 2000 ms timer.
AllCorrectHandling(fire, totalWords, pointsWon, points0, shown0, timers0, completions0) ==
  /\ showCongrats' = (shown0 \/ fire)
  /\ puntuacionTotal' = IF fire THEN points0 + pointsWon ELSE points0
  /\ congratsTimeouts' = IF fire THEN Append(timers0, totalWords) ELSE timers0
  /\ completions' = IF fire THEN completions0 + 1 ELSE completions0

\* setCrossword(cw) and the effects of the render it causes: the validation
\* effect runs with the new expectedByCell exp and the letters of before
\* (first), the effect on [crossword] empties the letters, and the validation
\* effect runs again.
ShowLayout(cw, exp, first, pointsWon, points0, shown0, timers0) ==
  /\ first.fire => Len(timers0) < MaxTimeouts
  /\ crossword' = cw
  /\ expected' = exp
  /\ letters' = <<>>
  /\ validationHandledRef' = validationEffect(<<>>, exp, first.handled).handled
  /\ AllCorrectHandling(first.fire, Len(cw.entries), pointsWon, points0, shown0, timers0, 0)

SetCrosswordTo(cw, exp, handled, pointsWon, points0, shown0, timers0) ==
  ShowLayout(cw, exp, validationEffect(letters, exp, handled), pointsWon, points0, shown0, timers0)

setCrossword(cw, handled, pointsWon, points0, shown0, timers0) ==
  SetCrosswordTo(cw, expectedOf(cw), handled, pointsWon, points0, shown0, timers0)

\* No layout is set, and no effect of a layout runs.
KeepLayout(points0, shown0, timers0, completions0) ==
  /\ UNCHANGED boardVars
  /\ AllCorrectHandling(FALSE, 0, 0, points0, shown0, timers0, completions0)

\* const configDifficulty = data.nivel ? normalizarNivelConfig(data.nivel) : difficulty
configDifficultyOf(data) ==
  IF data.nivel # "" THEN normalizarNivelConfig(data.nivel) ELSE difficultyProp

\* The effect that loads crucigrama-config.json when Home is mounted.
CargarConfig ==
  /\ ~configLoaded
  /\ \E data \in Configs :
       /\ dataNivel' = data.nivel
       /\ IF ~data.ok
          THEN /\ configError' = loadError
               /\ UNCHANGED <<wordPool, difficultyConfig, validationHandledRef>>
               /\ KeepLayout(puntuacionTotal, showCongrats, congratsTimeouts, completions)
          ELSE /\ difficultyConfig' = IF data.nivel # "" THEN configDifficultyOf(data)
                                                        ELSE difficultyConfig
               /\ IF data.throws
                  THEN /\ configError' = loadError
                       /\ UNCHANGED <<wordPool, validationHandledRef>>
                       /\ KeepLayout(puntuacionTotal, showCongrats, congratsTimeouts, completions)
                  ELSE IF Len(data.words) = 0
                  THEN /\ configError' = noWordsError
                       /\ UNCHANGED <<wordPool, validationHandledRef>>
                       /\ KeepLayout(puntuacionTotal, showCongrats, congratsTimeouts, completions)
                  ELSE \E loaded \in BuildResultsOf[[words |-> data.words,
                                                     difficulty |-> configDifficultyOf(data)]] :
                         IF loaded.error # null
                         THEN /\ wordPool' = <<>>
                              /\ configError' = loaded.error
                              /\ UNCHANGED validationHandledRef
                              /\ KeepLayout(puntuacionTotal, showCongrats, congratsTimeouts,
                                            completions)
                         ELSE /\ wordPool' = loaded.usableWords
                              /\ configError' = null
                              /\ setCrossword(loaded.crossword, validationHandledRef,
                                              PUNTOS_POR_DIFICULTAD[configDifficultyOf(data)],
                                              puntuacionTotal, showCongrats, congratsTimeouts)
  /\ configLoaded' = TRUE
  /\ UNCHANGED <<screenVars, scoreVars, clockVars, hideTimeouts, tiempoAtPause, genVars, selVars, searchVars>>

\* resetGame(): the counters and the clock of a new round, and a new layout
\* when its build succeeds.
resetGame ==
  /\ countdown' = 5
  /\ showCountdown' = TRUE
  /\ completedExercises' = 0
  /\ correctWordsTotal' = 0
  /\ incorrectWordsTotal' = 0
  /\ tiempoRestante' = TIEMPO_POR_DIFICULTAD[difficultyConfig]
  /\ currentExercise' = 1
  /\ \E resetBuild \in BuildResultsOf[[words |-> wordPool, difficulty |-> difficultyConfig]] :
       IF resetBuild.error = null
       THEN /\ configError' = null
            /\ setCrossword(resetBuild.crossword, FALSE, PUNTOS_POR_DIFICULTAD[difficultyConfig],
                            0, showCongrats, congratsTimeouts)
       ELSE /\ configError' = resetBuild.error
            /\ validationHandledRef' = FALSE
            /\ KeepLayout(0, showCongrats, congratsTimeouts, 0)
  /\ timeoutHandledRef' = FALSE
  /\ timeouts' = 0

\* The button "Iniciar juego" of the start screen.
handleStartGame ==
  /\ showStartScreen
  /\ ~(~configLoaded \/ Len(wordPool) = 0)
  /\ showStartScreen' = FALSE
  /\ resetGame
  /\ UNCHANGED <<configLoaded, wordPool, difficultyConfig, dataNivel, showSummary, pausado,
                 showKeepTrying, transitionTimeout, hideTimeouts, tiempoAtPause,
                 genVars, selVars, searchVars>>

\* The 1000 ms timer of the countdown effect; at 0 the effect starts the
\* 500 ms timer that hides the countdown.
CountdownTick ==
  /\ showCountdown /\ countdown > 0
  /\ countdown - 1 = 0 => hideTimeouts < MaxTimeouts
  /\ countdown' = countdown - 1
  /\ hideTimeouts' = IF countdown - 1 = 0 THEN hideTimeouts + 1 ELSE hideTimeouts
  /\ UNCHANGED <<configVars, boardVars, congratsVars, showStartScreen, showCountdown,
                 showSummary, pausado, showKeepTrying, scoreVars, clockVars,
                 validationHandledRef, tiempoAtPause, genVars, selVars, searchVars>>

\* The 500 ms timer: setShowCountdown(false).
HideCountdown ==
  /\ hideTimeouts > 0
  /\ showCountdown' = FALSE
  /\ hideTimeouts' = hideTimeouts - 1
  /\ UNCHANGED <<configVars, boardVars, congratsVars, showStartScreen, countdown,
                 showSummary, pausado, showKeepTrying, scoreVars, clockVars,
                 validationHandledRef, tiempoAtPause, genVars, selVars, searchVars>>

\* The clock ignores pausado.
shouldPause_noPausado ==
  showStartScreen \/ showCountdown \/ showSummary \/ showKeepTrying \/ showCongrats
  \/ countdown > 0

\* shouldPause of the clock effect (showFeedback is false).
shouldPause ==
  showStartScreen \/ showCountdown \/ pausado \/ showSummary \/ showKeepTrying
  \/ showCongrats \/ countdown > 0

\* isComplete of the clock: every expected cell holds its letter.
isCompleteAt(ls, exp) ==
  DOMAIN exp # {} /\ \A k \in DOMAIN exp : Upper(letterAt(ls, k)) = exp[k]

\* The timers of 500 ms and of 2000 ms have all fired: the 1000 ms timer of
\* the clock is set after the countdown of the round, which lasts 5 s, and a
\* timer of 2000 ms that is set later stops the clock with its overlay.
noTimerPending ==
  hideTimeouts = 0 /\ ~transitionTimeout.pending /\ Len(congratsTimeouts) = 0

\* The clock without its two tests of a time that is 0 or less.
Tick_noZeroTests ==
  /\ ~shouldPause
  /\ noTimerPending
  /\ tiempoRestante' = tiempoRestante - 1
  /\ IF tiempoRestante - 1 = 0 /\ ~timeoutHandledRef
     THEN /\ timeoutHandledRef' = TRUE
          /\ IF ~isCompleteAt(letters, expected)
             THEN /\ showKeepTrying' = TRUE
                  /\ transitionTimeout' =
                       [pending |-> TRUE,
                        wordResults |-> calculateWordResults(crossword.entries, letters, expected)]
                  /\ timeouts' = timeouts + 1
             ELSE UNCHANGED <<showKeepTrying, transitionTimeout, timeouts>>
     ELSE UNCHANGED <<timeoutHandledRef, showKeepTrying, transitionTimeout, timeouts>>
  /\ UNCHANGED <<configVars, boardVars, congratsVars, showStartScreen, showCountdown,
                 countdown, showSummary, pausado, scoreVars, validationHandledRef,
                 hideTimeouts, tiempoAtPause, genVars, selVars, searchVars>>

\* The 1000 ms timer of the clock effect: the effect sets it when shouldPause
\* is false and tiempoRestante > 0, and clears it when one of them changes.
Tick ==
  /\ ~shouldPause
  /\ noTimerPending
  /\ ~(tiempoRestante <= 0)
  /\ tiempoRestante' = IF tiempoRestante <= 0 THEN 0 ELSE tiempoRestante - 1
  /\ IF ~(tiempoRestante <= 0) /\ tiempoRestante - 1 = 0 /\ ~timeoutHandledRef
     THEN /\ timeoutHandledRef' = TRUE
          /\ IF ~isCompleteAt(letters, expected)
             THEN /\ showKeepTrying' = TRUE
                  /\ transitionTimeout' =
                       [pending |-> TRUE,
                        wordResults |-> calculateWordResults(crossword.entries, letters, expected)]
                  /\ timeouts' = timeouts + 1
             ELSE UNCHANGED <<showKeepTrying, transitionTimeout, timeouts>>
     ELSE UNCHANGED <<timeoutHandledRef, showKeepTrying, transitionTimeout, timeouts>>
  /\ UNCHANGED <<configVars, boardVars, congratsVars, showStartScreen, showCountdown,
                 countdown, showSummary, pausado, scoreVars, validationHandledRef,
                 hideTimeouts, tiempoAtPause, genVars, selVars, searchVars>>

\* goToNextExercise(wordResults), called by a timer that leaves showCongrats at
\* shown0 and the timers of the validation effect at timers0.
goToNextExercise(wordResults, shown0, timers0) ==
  /\ completedExercises' = completedExercises + 1
  /\ correctWordsTotal' = correctWordsTotal + wordResults.correctWords
  /\ incorrectWordsTotal' = incorrectWordsTotal + wordResults.incorrectWords
  /\ IF currentExercise < numExercises
     THEN /\ currentExercise' = currentExercise + 1
          /\ \E nextBuild \in BuildResultsOf[[words |-> wordPool,
                                             difficulty |-> difficultyConfig]] :
               IF nextBuild.error = null
               THEN /\ configError' = null
                    /\ setCrossword(nextBuild.crossword, FALSE,
                                    PUNTOS_POR_DIFICULTAD[difficultyConfig],
                                    puntuacionTotal, shown0, timers0)
               ELSE /\ configError' = nextBuild.error
                    /\ validationHandledRef' = FALSE
                    /\ KeepLayout(puntuacionTotal, shown0, timers0, 0)
          /\ tiempoRestante' = TIEMPO_POR_DIFICULTAD[difficultyConfig]
          /\ timeoutHandledRef' = FALSE
          /\ timeouts' = 0
          /\ UNCHANGED showSummary
     ELSE /\ showSummary' = TRUE
          /\ KeepLayout(puntuacionTotal, shown0, timers0, completions)
          /\ UNCHANGED <<currentExercise, configError, tiempoRestante, timeoutHandledRef,
                         validationHandledRef, timeouts>>

\* The 2000 ms timer of transitionTimeoutRef.
KeepTryingTimeout ==
  /\ transitionTimeout.pending
  /\ showKeepTrying' = FALSE
  /\ transitionTimeout' = noTimeout
  /\ goToNextExercise(transitionTimeout.wordResults, showCongrats, congratsTimeouts)
  /\ UNCHANGED <<configLoaded, wordPool, difficultyConfig, dataNivel, showStartScreen, showCountdown,
                 countdown, pausado, hideTimeouts, tiempoAtPause, genVars, selVars, searchVars>>

\* The oldest 2000 ms timer of the validation effect: setShowCongrats(false)
\* and goToNextExercise({ correctWords: totalWords, incorrectWords: 0 }).
CongratsTimeout ==
  /\ Len(congratsTimeouts) > 0
  /\ goToNextExercise([correctWords |-> Head(congratsTimeouts), incorrectWords |-> 0],
                      FALSE, Tail(congratsTimeouts))
  /\ UNCHANGED <<configLoaded, wordPool, difficultyConfig, dataNivel, showStartScreen, showCountdown,
                 countdown, pausado, showKeepTrying, transitionTimeout, hideTimeouts,
                 tiempoAtPause, genVars, selVars, searchVars>>

\* Row-major position of a cell of the board on show.
keyIndex(k) == k[1] * crossword.cols + k[2]

\* The first MaxFreeCells cells of the layout, in row-major order.
freeKeys ==
  {k \in DOMAIN expected :
     Cardinality({j \in DOMAIN expected : keyIndex(j) < keyIndex(k)}) < MaxFreeCells}

\* The values of the input of cell k that the user produces: the letter of
\* the cell; in a free cell also a small letter, a letter that is wrong, a
\* digit, a letter with a tilde, and nothing.
rawInputs(k) ==
  IF k \in freeKeys THEN {<<expected[k]>>, <<"a">>, <<"Z">>, <<"1">>, <<"U+00D1">>, <<>>}
  ELSE {<<expected[k]>>}

\* A cell that is not free is typed after the cells that are not free and
\* come before it.
mayType(k) ==
  \/ k \in freeKeys
  \/ \A j \in DOMAIN expected \ freeKeys :
       keyIndex(j) < keyIndex(k) => letterAt(letters, j) # ""

\* The render after setLetters(ls): the validation effect, with outcome v.
InputValidated(ls, v) ==
  /\ v.fire => (completions < MaxCompletions /\ Len(congratsTimeouts) < MaxTimeouts)
  /\ letters' = ls
  /\ validationHandledRef' = v.handled
  /\ AllCorrectHandling(v.fire, Len(crossword.entries), PUNTOS_POR_DIFICULTAD[difficultyConfig],
                        puntuacionTotal, showCongrats, congratsTimeouts, completions)

\* The validation effect that resets validationHandledRef never.
setCellLetter_keepsHandled(k, value) ==
  InputValidated(withLetter(letters, k, value),
                 [handled |-> validationHandledRef
                                \/ validationEffect(withLetter(letters, k, value), expected,
                                                    validationHandledRef).handled,
                  fire |-> validationEffect(withLetter(letters, k, value), expected,
                                            validationHandledRef).fire])

\* setCellLetter(k, value) and the validation effect of the render.
setCellLetter(k, value) ==
  InputValidated(withLetter(letters, k, value),
                 validationEffect(withLetter(letters, k, value), expected, validationHandledRef))

\* handleInput(k, raw) of the input of a cell: the inputs are rendered when
\* the start screen is not shown, for the cells of the entries.
handleInput ==
  /\ ~showStartScreen
  /\ tiempoRestante <= MaxBusySeconds
  /\ \E k \in DOMAIN expected :
       /\ mayType(k)
       /\ \E raw \in rawInputs(k) : setCellLetter(k, normalizeLetter(raw))
  /\ UNCHANGED <<configVars, crossword, expected, screenVars, scoreVars, clockVars,
                 hideTimeouts, tiempoAtPause, genVars, selVars, searchVars>>

\* entryCells[id] of the layout on show: the cells of the entry of that id,
\* in the order of its letters (the last entry of the id, were there two).
cellsOfEntry(id) ==
  LET n == CHOOSE m \in DOMAIN crossword.entries :
             /\ crossword.entries[m].id = id
             /\ \A j \in DOMAIN crossword.entries :
                  crossword.entries[j].id = id => j <= m
  IN [i \in 1..Len(crossword.entries[n].answer) |-> cellOf(crossword.entries[n], i - 1)]

\* cells.indexOf(k): from 0, and -1 when k is not among the cells.
indexOf(cells, k) ==
  IF \E i \in DOMAIN cells : cells[i] = k
  THEN (CHOOSE i \in DOMAIN cells : cells[i] = k /\ \A j \in 1..(i - 1) : cells[j] # k) - 1
  ELSE -1

\* handleKeyDown(k, e) of the input of a cell with the key Backspace (any
\* other key returns at once): a cell that holds a letter is emptied; in an
\* empty cell the cell before it in the active entry is emptied, if there is
\* one. activeEntryId is the entry the user has made active, an entry of the
\* layout.
handleKeyDown ==
  /\ ~showStartScreen
  /\ tiempoRestante <= MaxBusySeconds
  /\ \E k \in DOMAIN expected :
       IF letterAt(letters, k) # ""
       THEN setCellLetter(k, "")
       ELSE \E n \in DOMAIN crossword.entries :
              /\ indexOf(cellsOfEntry(crossword.entries[n].id), k) > 0
              /\ setCellLetter(cellsOfEntry(crossword.entries[n].id)
                                 [indexOf(cellsOfEntry(crossword.entries[n].id), k)], "")
  /\ UNCHANGED <<configVars, crossword, expected, screenVars, scoreVars, clockVars,
                 hideTimeouts, tiempoAtPause, genVars, selVars, searchVars>>

\* handlePausar, the button "Pausar" (showInstructions and showFeedback are
\* false).
handlePausar ==
  /\ ~showStartScreen
  /\ tiempoRestante <= MaxBusySeconds
  /\ ~(showStartScreen \/ showCountdown \/ showSummary \/ pausado)
  /\ pausado' = TRUE
  /\ tiempoAtPause' = tiempoRestante
  /\ UNCHANGED <<configVars, boardVars, congratsVars, showStartScreen, showCountdown,
                 countdown, showSummary, showKeepTrying, scoreVars, clockVars,
                 validationHandledRef, hideTimeouts, genVars, selVars, searchVars>>

\* handleResume, the button "Reanudar" of the pause overlay.
handleResume ==
  /\ pausado
  /\ pausado' = FALSE
  /\ tiempoAtPause' = 0
  /\ UNCHANGED <<configVars, boardVars, congratsVars, showStartScreen, showCountdown,
                 countdown, showSummary, showKeepTrying, scoreVars, clockVars,
                 validationHandledRef, hideTimeouts, genVars, selVars, searchVars>>

\* handleSalirDesdePausa, the button "Finalizar juego" of the pause overlay
\* and "Jugar de Nuevo" of the summary: setPausado(false), handleExitToStart().
handleSalirDesdePausa ==
  /\ pausado \/ showSummary
  /\ pausado' = FALSE
  /\ showCountdown' = FALSE
  /\ showSummary' = FALSE
  /\ showStartScreen' = TRUE
  /\ tiempoAtPause' = 0
  /\ UNCHANGED <<configVars, boardVars, congratsVars, countdown, showKeepTrying, scoreVars,
                 clockVars, validationHandledRef, hideTimeouts, genVars, selVars, searchVars>>

HomeInit ==
  /\ HomeMount
  /\ SearchIdle
  /\ words = <<>> /\ rows = 0 /\ cols = 0 /\ pc = "done" /\ restart = 0
  /\ result = [rows |-> 0, cols |-> 0, entries |-> <<>>]
  /\ poolWords = <<>> /\ difficulty = "basic" /\ bpc = "idle" /\ attempt = 0
  /\ invoked = FALSE /\ build = NoBuild

HomeNext ==
  \/ CargarConfig
  \/ handleStartGame
  \/ CountdownTick
  \/ HideCountdown
  \/ Tick
  \/ KeepTryingTimeout
  \/ CongratsTimeout
  \/ handleInput
  \/ handleKeyDown
  \/ handlePausar
  \/ handleResume
  \/ handleSalirDesdePausa

HomeSpec == HomeInit /\ [][HomeNext]_vars

----------------------------------------------------------------------------
(* One iteration of the restart loop, call by call                         *)

\* startR0 and startC0 of combination k of the offsets.
seedStart(k, first, firstDir, nRows, nCols) ==
  [r |-> (IF firstDir = "down" THEN (nRows \div 2) - (Len(first.answer) \div 2)
                               ELSE nRows \div 2)
         + offsets[(k \div Len(offsets)) + 1],
   c |-> (IF firstDir = "across" THEN (nCols \div 2) - (Len(first.answer) \div 2)
                                 ELSE nCols \div 2)
         + offsets[(k % Len(offsets)) + 1]]

\* The indices grid[r][c] that canPlace reads when no test makes it return
\* before: none when the start or the end is out of bounds, else the cells
\* before and after the word that pass the index test, the letter cells, and
\* the neighbours of the empty letter cells that pass the index test.
canPlaceReads(grid, word, dir, sr, sc, nRows, nCols) ==
  IF ~(/\ inBounds(sr, sc, nRows, nCols)
       /\ inBounds(sr + (IF dir = "down" THEN Len(word) - 1 ELSE 0),
                   sc + (IF dir = "across" THEN Len(word) - 1 ELSE 0), nRows, nCols))
  THEN {}
  ELSE (IF dir = "across"
        THEN {<<sr, c>> : c \in {x \in {sc - 1} : x >= 0} \cup {x \in {sc + Len(word)} : x < nCols}}
        ELSE {<<r, sc>> : r \in {x \in {sr - 1} : x >= 0} \cup {x \in {sr + Len(word)} : x < nRows}})
       \cup {<<sr + (IF dir = "down" THEN i ELSE 0), sc + (IF dir = "across" THEN i ELSE 0)>> :
               i \in 0..(Len(word) - 1)}
       \cup UNION {IF dir = "across"
                   THEN {<<r, sc + i>> : r \in {x \in {sr - 1} : x >= 0}
                                               \cup {x \in {sr + 1} : x < nRows}}
                   ELSE {<<sr + i, c>> : c \in {x \in {sc - 1} : x >= 0}
                                               \cup {x \in {sc + 1} : x < nCols}}
                     : i \in {j \in 0..(Len(word) - 1) :
                                grid[sr + (IF dir = "down" THEN j ELSE 0)]
                                    [sc + (IF dir = "across" THEN j ELSE 0)] = ""}}

\* A call canPlace(grid, word, dir, sr, sc).
placeCallOf(grid, word, dir, sr, sc, nRows, nCols) ==
  [made |-> TRUE, grid |-> grid, word |-> word, dir |-> dir, sr |-> sr, sc |-> sc,
   ok |-> canPlace(grid, word, dir, sr, sc, nRows, nCols),
   reads |-> canPlaceReads(grid, word, dir, sr, sc, nRows, nCols)]

\* cloneGrid that returns the array it is given.
cloneRef_alias(h, ref) == ref

\* The reference cloneGrid(h[ref]) returns: a new array.
cloneRef(h, ref) == Len(h) + 1

\* The heap after cloneGrid(h[ref]) has made a grid and applyPlace has
\* written the word into the grid at newRef.
placedHeap(h, ref, newRef, word, dir, sr, sc) ==
  [Append(h, cloneGrid(h[ref])) EXCEPT ![newRef] = applyPlace(@, word, dir, sr, sc)]

\* The elements of the array s that the for loop has still to try, whatever
\* the order shuffle gives them: each start cell with the times it occurs.
candidateCounts(s) == [c \in Range(s) |-> Cardinality({i \in DOMAIN s : s[i] = c})]

\* A call backtrack(grid, idx, shuffled, directions, entries, acrossCount,
\* downCount) at its entry, with the grid at ref in h: untried is
\* crossingCandidates, a start cell as many times as the array holds it
\* (empty when idx is past the last word), calls counts the recursive calls
\* it has made, received is the grid as it was received.
callFrame(h, ref, idx, shuffled, entries, acrossCount, downCount, nRows, nCols) ==
  [ref |-> ref, idx |-> idx, entries |-> entries,
   acrossCount |-> acrossCount, downCount |-> downCount,
   untried |-> IF idx >= Len(shuffled) THEN candidateCounts(<<>>)
               ELSE candidateCounts(getCandidatesByCrossing(h[ref], shuffled[idx + 1].answer,
                                                            Directions(shuffled)[idx + 1],
                                                            nRows, nCols)),
   calls |-> 0,
   received |-> h[ref]]

\* The for loop of backtrack left after its first candidate.
remaining_none(untried, cand) == candidateCounts(<<>>)

\* The candidates of the for loop that come after one pass for cand: one
\* occurrence of cand less.
remaining(untried, cand) ==
  [c \in {x \in DOMAIN untried : x # cand \/ untried[x] > 1} |->
     IF c = cand THEN untried[c] - 1 ELSE untried[c]]

top == stack[Len(stack)]

\* The state after makeGrid(), shuffle and the directions of one iteration.
SearchInit ==
  /\ \E call \in {x \in Calls : Len(x.words) # 0} :
       /\ words = call.words /\ rows = call.rows /\ cols = call.cols
       /\ perm \in Shuffled(call.words)
       /\ heap = <<makeGrid(call.rows, call.cols)>>
       /\ result = [rows |-> call.rows, cols |-> call.cols, entries |-> <<>>]
  /\ pc = "loop" /\ restart = 0
  /\ poolWords = <<>> /\ difficulty = "basic" /\ bpc = "idle" /\ attempt = 0
  /\ invoked = FALSE /\ build = NoBuild
  /\ HomeMount
  /\ seedK = 0 /\ stack = <<>> /\ spc = "seeds" /\ placeCall = noCall

\* The heap and the stack after the seed is placed at cell `at` and
\* backtrack(g0, 1, ...) is called.
SeedPlaced(at, g0) ==
  /\ heap' = placedHeap(heap, 1, g0, perm[1].answer, Directions(perm)[1], at.r, at.c)
  /\ stack' = <<callFrame(placedHeap(heap, 1, g0, perm[1].answer, Directions(perm)[1],
                                    at.r, at.c),
                         g0, 1, perm,
                         <<Entry(<<IF Directions(perm)[1] = "across" THEN "A" ELSE "D", 1>>,
                                 Directions(perm)[1], at.r, at.c, perm[1])>>,
                         IF Directions(perm)[1] = "across" THEN 1 ELSE 0,
                         IF Directions(perm)[1] = "down" THEN 1 ELSE 0, rows, cols)>>

\* One pass of the inner loop over offsets: canPlace of the seed, and when it
\* fits cloneGrid, applyPlace and the call of backtrack.
SeedTryAt(at) ==
  /\ placeCall' = placeCallOf(heap[1], perm[1].answer, Directions(perm)[1], at.r, at.c,
                              rows, cols)
  /\ IF ~canPlace(heap[1], perm[1].answer, Directions(perm)[1], at.r, at.c, rows, cols)
     THEN /\ seedK' = seedK + 1
          /\ UNCHANGED <<heap, stack, spc>>
     ELSE /\ SeedPlaced(at, cloneRef(heap, 1))
          /\ spc' = "search"
          /\ UNCHANGED seedK

SeedTry ==
  /\ spc = "seeds"
  /\ seedK < Len(offsets) * Len(offsets)
  /\ SeedTryAt(seedStart(seedK, perm[1], Directions(perm)[1], rows, cols))
  /\ UNCHANGED <<perm, genVars, selVars, gameVars>>

\* The loops over offsets end with built null: the iteration fails.
SeedsExhausted ==
  /\ spc = "seeds"
  /\ ~(seedK < Len(offsets) * Len(offsets))
  /\ spc' = "failed"
  /\ restart' = restart + 1
  /\ UNCHANGED <<words, rows, cols, pc, result, perm, seedK, heap, stack, placeCall,
                 selVars, gameVars>>

\* backtrack returns entries (idx >= shuffled.length); every caller returns
\* it, and the loops over offsets set built when it holds every word.
BacktrackReturnEntries ==
  /\ spc = "search"
  /\ top.idx >= Len(perm)
  /\ IF Len(top.entries) = Len(words)
     THEN /\ result' = [rows |-> rows, cols |-> cols, entries |-> top.entries]
          /\ pc' = "done"
          /\ spc' = "built"
          /\ UNCHANGED seedK
     ELSE /\ seedK' = seedK + 1
          /\ spc' = "seeds"
          /\ UNCHANGED <<result, pc>>
  /\ stack' = <<>>
  /\ heap' = <<heap[1]>>
  /\ UNCHANGED <<words, rows, cols, restart, perm, placeCall, selVars, gameVars>>

\* The call of backtrack for candidate cand of the frame on top, whose word
\* is w with direction dir: cloneGrid, applyPlace, the id, the entries.
BacktrackCall(cand, w, dir, nextGrid) ==
  /\ heap' = placedHeap(heap, top.ref, nextGrid, w.answer, dir, cand.r, cand.c)
  /\ stack' =
       Append([stack EXCEPT ![Len(stack)].untried = remaining(@, cand),
                            ![Len(stack)].calls = @ + 1],
              callFrame(placedHeap(heap, top.ref, nextGrid, w.answer, dir, cand.r, cand.c),
                        nextGrid, top.idx + 1, perm,
                        Append(top.entries,
                               Entry(entryId(dir,
                                             IF dir = "across" THEN top.acrossCount + 1
                                                               ELSE top.acrossCount,
                                             IF dir = "down" THEN top.downCount + 1
                                                             ELSE top.downCount),
                                     dir, cand.r, cand.c, w)),
                        IF dir = "across" THEN top.acrossCount + 1 ELSE top.acrossCount,
                        IF dir = "down" THEN top.downCount + 1 ELSE top.downCount,
                        rows, cols))

\* One pass of the for loop of backtrack, for the candidate that comes next
\* in the shuffled crossingCandidates.
BacktrackTryAt(cand, w, dir) ==
  /\ placeCall' = placeCallOf(heap[top.ref], w.answer, dir, cand.r, cand.c, rows, cols)
  /\ IF \/ ~canPlace(heap[top.ref], w.answer, dir, cand.r, cand.c, rows, cols)
        \/ countOverlaps(heap[top.ref], w.answer, dir, cand.r, cand.c) < 1
     THEN /\ stack' = [stack EXCEPT ![Len(stack)].untried = remaining(@, cand)]
          /\ UNCHANGED heap
     ELSE BacktrackCall(cand, w, dir, cloneRef(heap, top.ref))

BacktrackTry ==
  /\ spc = "search"
  /\ top.idx < Len(perm)
  /\ \E cand \in DOMAIN top.untried :
       BacktrackTryAt(cand, perm[top.idx + 1], Directions(perm)[top.idx + 1])
  /\ UNCHANGED <<perm, seedK, spc, genVars, selVars, gameVars>>

\* backtrack returns null: crossingCandidates is empty, or the for loop has
\* ended. The caller goes on with its loop.
BacktrackReturnNull ==
  /\ spc = "search"
  /\ top.idx < Len(perm)
  /\ DOMAIN top.untried = {}
  /\ stack' = SubSeq(stack, 1, Len(stack) - 1)
  /\ heap' = SubSeq(heap, 1, Len(heap) - 1)
  /\ IF Len(stack) = 1
     THEN seedK' = seedK + 1 /\ spc' = "seeds"
     ELSE UNCHANGED <<seedK, spc>>
  /\ UNCHANGED <<perm, placeCall, genVars, selVars, gameVars>>

SearchNext ==
  \/ SeedTry
  \/ SeedsExhausted
  \/ BacktrackTry
  \/ BacktrackReturnEntries
  \/ BacktrackReturnNull

SearchSpec == SearchInit /\ [][SearchNext]_vars

----------------------------------------------------------------------------
(* Properties of the returned layout                                       *)

Returned == pc = "done"

E == result.entries

DistinctAnswers ==
  \A i, j \in DOMAIN words : words[i].answer = words[j].answer => i = j

\* C1 (coverage): a returned layout with entries, for a non-empty word list
\* with pairwise distinct answers, has as many entries as there are words,
\* every input word is the answer (and clue) of exactly one entry, and every
\* entry's answer is an input answer.
C1_Coverage ==
  (Returned /\ E # <<>> /\ Len(words) # 0 /\ DistinctAnswers) =>
    /\ Len(E) = Len(words)
    /\ \A i \in DOMAIN words :
         Cardinality({n \in DOMAIN E : E[n].answer = words[i].answer
                                        /\ E[n].clue = words[i].clue}) = 1
    /\ {E[n].answer : n \in DOMAIN E} = {words[i].answer : i \in DOMAIN words}

C1_Witness == Returned /\ Len(E) = 3 /\ DistinctAnswers

\* C2 (bounds): every letter cell of every entry of a returned layout lies
\* within [0, rows) x [0, cols).
C2_Bounds ==
  Returned =>
    \A n \in DOMAIN E : \A k \in entryCells(E[n]) :
      inBounds(k[1], k[2], result.rows, result.cols)

\* A returned layout of three entries with an entry ending in the last
\* column and an entry ending in the last row.
C2_Witness ==
  /\ Returned /\ Len(E) = 3
  /\ \E n \in DOMAIN E : E[n].direction = "across" /\ Len(E[n].answer) >= 2
                          /\ E[n].col + Len(E[n].answer) = cols
  /\ \E n \in DOMAIN E : E[n].direction = "down" /\ Len(E[n].answer) >= 2
                          /\ E[n].row + Len(E[n].answer) = rows

\* Letter i of an entry.
letterOf(entry, i) == entry.answer[i + 1]

\* C3 (crossing): every entry after the first shares a letter cell with an
\* entry earlier in the entries sequence, with the same letter there.
C3_Crossing ==
  Returned =>
    \A n \in DOMAIN E : n > 1 =>
      \E m \in 1..(n - 1) :
        \E i \in 0..(Len(E[n].answer) - 1), j \in 0..(Len(E[m].answer) - 1) :
          /\ cellOf(E[n], i) = cellOf(E[m], j)
          /\ letterOf(E[n], i) = letterOf(E[m], j)

\* A returned layout whose third entry does not touch the first: it crosses
\* the second entry only.
C3_Witness ==
  /\ Returned /\ Len(E) = 3
  /\ entryCells(E[3]) \cap entryCells(E[1]) = {}
  /\ entryCells(E[3]) \cap entryCells(E[2]) # {}

\* C4 (letter consistency): two entries that cover the same cell give it the
\* same letter, so the expected letter of a cell is the letter of every
\* entry that covers it, whatever the order of the entries.
C4_LetterConsistency ==
  Returned =>
    /\ \A n, m \in DOMAIN E :
         \A i \in 0..(Len(E[n].answer) - 1), j \in 0..(Len(E[m].answer) - 1) :
           cellOf(E[n], i) = cellOf(E[m], j) => letterOf(E[n], i) = letterOf(E[m], j)
    /\ \A n \in DOMAIN E : \A i \in 0..(Len(E[n].answer) - 1) :
         expectedByCell(result)[cellOf(E[n], i)] = letterOf(E[n], i)

\* A returned layout where an entry shares two or more cells with another.
C4_Witness ==
  /\ Returned
  /\ \E n, m \in DOMAIN E :
       n # m /\ Cardinality(entryCells(E[n]) \cap entryCells(E[m])) >= 2

\* The finished grid: the cells some entry of the returned layout covers.
Occupied(k) == \E n \in DOMAIN E : k \in entryCells(E[n])

FreeOrOutside(k) == ~inBounds(k[1], k[2], result.rows, result.cols) \/ ~Occupied(k)

\* C5 (no illegal adjacency in the finished layout): for every entry, the
\* cell before its first letter and the cell after its last letter, along
\* its own axis, are empty in the finished grid or out of bounds.
C5_EndsFree ==
  Returned =>
    \A n \in DOMAIN E :
      /\ FreeOrOutside(cellOf(E[n], -1))
      /\ FreeOrOutside(cellOf(E[n], Len(E[n].answer)))

\* C6 (crossings are perpendicular): two entries of a returned layout that
\* cover a common cell have different directions.
C6_PerpendicularCrossings ==
  Returned =>
    \A n, m \in DOMAIN E :
      (n # m /\ entryCells(E[n]) \cap entryCells(E[m]) # {}) =>
        E[n].direction # E[m].direction

\* The cells of row r from column c1 to c2, and of column c from row r1 to r2.
rowRun(r, c1, c2) == {keyOf(r, c) : c \in c1..c2}
colRun(c, r1, r2) == {keyOf(r, c) : r \in r1..r2}

\* C7 (no accidental words): every maximal run of two or more occupied cells
\* in a row of the finished grid is the span of an Across entry, and every
\* such run in a column is the span of a Down entry.
C7_NoAccidentalWords ==
  Returned =>
    /\ \A r \in 0..(rows - 1) : \A c1, c2 \in 0..(cols - 1) :
         (/\ c1 < c2
          /\ \A k \in rowRun(r, c1, c2) : Occupied(k)
          /\ FreeOrOutside(keyOf(r, c1 - 1))
          /\ FreeOrOutside(keyOf(r, c2 + 1))) =>
           \E n \in DOMAIN E : /\ E[n].direction = "across"
                                /\ entryCells(E[n]) = rowRun(r, c1, c2)
    /\ \A c \in 0..(cols - 1) : \A r1, r2 \in 0..(rows - 1) :
         (/\ r1 < r2
          /\ \A k \in colRun(c, r1, r2) : Occupied(k)
          /\ FreeOrOutside(keyOf(r1 - 1, c))
          /\ FreeOrOutside(keyOf(r2 + 1, c))) =>
           \E n \in DOMAIN E : /\ E[n].direction = "down"
                                /\ entryCells(E[n]) = colRun(c, r1, r2)

\* A returned layout of three entries with a run of two or more cells in a
\* row and one in a column.
C7_Witness ==
  /\ Returned /\ Len(E) = 3
  /\ \E n \in DOMAIN E : E[n].direction = "across" /\ Len(E[n].answer) >= 2
  /\ \E n \in DOMAIN E : E[n].direction = "down" /\ Len(E[n].answer) >= 2

prefixOf(entry) == IF entry.direction = "across" THEN "A" ELSE "D"

\* C8 as stated (entry identifier): the id of every entry of a returned
\* layout is its prefix with the row-major number of its start cell.
C8_IdIsStartCellNumber ==
  Returned =>
    \A n \in DOMAIN E : E[n].id = <<prefixOf(E[n]), entryNumber(result, E[n])>>

\* C8 as amended: the id of every entry of a returned layout is its prefix
\* with the number of entries of its direction among the entries up to and
\* including it in the entries sequence (placement order).
C8_IdIsPlacementCount ==
  Returned =>
    \A n \in DOMAIN E :
      E[n].id = <<prefixOf(E[n]),
                  Cardinality({m \in 1..n : E[m].direction = E[n].direction})>>

\* A returned layout of three entries where the seed's id number is not the
\* row-major number of its start cell.
C8_Witness ==
  /\ Returned /\ Len(E) = 3
  /\ E[1].id[2] # entryNumber(result, E[1])

rowMajorBefore(k1, k2) == k1[1] < k2[1] \/ (k1[1] = k2[1] /\ k1[2] < k2[2])

\* C9 (numbering): the numbers of cellNumbers are 1..k for the k distinct
\* start cells of the layout, strictly increasing in row-major order of the
\* start cells; two entries have the same displayed number exactly when
\* they have the same start cell.
C9_Numbering ==
  Returned =>
    LET num == cellNumbers(result)
        S == starts(result)
        shown == [n \in DOMAIN E |-> entryNumber(result, E[n])]
    IN /\ DOMAIN num = S
       /\ {num[k] : k \in S} = 1..Cardinality(S)
       /\ \A k1, k2 \in S : rowMajorBefore(k1, k2) => num[k1] < num[k2]
       /\ \A n, m \in DOMAIN E :
            (shown[n] = shown[m]) <=> (E[n].row = E[m].row /\ E[n].col = E[m].col)

\* A returned layout with two entries on one start cell and a third entry
\* that starts in a later column of an earlier row.
C9_Witness ==
  /\ Returned
  /\ \E n, m \in DOMAIN E :
       n # m /\ E[n].row = E[m].row /\ E[n].col = E[m].col
  /\ \E n, m \in DOMAIN E : E[n].row < E[m].row /\ E[n].col > E[m].col

\* C10 (restart budget): for a non-empty word list, restart never passes
\* 600; an iteration that goes on to the next one has failed and adds one to
\* restart; a layout with entries is returned by an iteration taken with
\* restart < 600 (all iterations before it failed) and is a layout that
\* iteration can build; a layout without entries is returned only from
\* restart = 600, after 600 failed iterations; and the call returns.
C10_RestartBudget ==
  /\ [](restart \in 0..MAX_RESTARTS)
  /\ [][(pc = "loop" /\ pc' = "loop") => (restart' = restart + 1 /\ Built.null)]_vars
  /\ [][(pc = "loop" /\ pc' = "done" /\ result'.entries # <<>>) =>
          (restart < MAX_RESTARTS /\ result'.entries \in Built.res)]_vars
  /\ [][(pc = "loop" /\ pc' = "done" /\ result'.entries = <<>>) =>
          (restart = MAX_RESTARTS /\ Built.null)]_vars
  /\ <>Returned

\* The loop of a call with words has ended after 600 failed restarts.
C10_Witness == pc = "loop" /\ Len(words) # 0 /\ restart = MAX_RESTARTS

----------------------------------------------------------------------------
(* Properties of buildCrosswordForDifficulty                               *)

BuildReturned == bpc = "done"

\* The board size and the required count of the tiers, as the claims give them.
TierBoard == IF difficulty = "basic" THEN 9 ELSE IF difficulty = "intermediate" THEN 12 ELSE 15

TierCount == IF difficulty = "basic" THEN 5 ELSE IF difficulty = "intermediate" THEN 10 ELSE 15

\* The words of ws at the positions in S, in the order of ws.
AtPositions(ws, S) ==
  LET upTo[n \in 0..Len(ws)] ==
        IF n = 0 THEN <<>>
        ELSE upTo[n - 1] \o (IF n \in S THEN <<ws[n]>> ELSE <<>>)
  IN upTo[Len(ws)]

FitPositions == {i \in DOMAIN poolWords : Len(poolWords[i].answer) <= TierBoard}

LongPositions == {i \in DOMAIN poolWords : Len(poolWords[i].answer) > TierBoard}

\* C11 (usable/omitted partition): in every result, usableWords is the pool
\* words of answer length <= 9, 12, 15 (basic, intermediate, advanced) in pool
\* order and omittedWords is the longer ones in pool order, so that every pool
\* position is in exactly one of the two; a word of length 16 on the advanced
\* tier is in omittedWords and not in usableWords.
C11_Partition ==
  BuildReturned =>
    /\ build.usableWords = AtPositions(poolWords, FitPositions)
    /\ build.omittedWords = AtPositions(poolWords, LongPositions)
    /\ FitPositions \cap LongPositions = {}
    /\ FitPositions \cup LongPositions = DOMAIN poolWords
    /\ Len(build.usableWords) + Len(build.omittedWords) = Len(poolWords)
    /\ \A i \in DOMAIN poolWords :
         (difficulty = "advanced" /\ Len(poolWords[i].answer) = 16) =>
           /\ poolWords[i] \in Range(build.omittedWords)
           /\ poolWords[i] \notin Range(build.usableWords)

\* An advanced-tier result for a pool with a word of length 16 and shorter words.
C11_Witness ==
  /\ BuildReturned
  /\ difficulty = "advanced"
  /\ \E i \in DOMAIN poolWords : Len(poolWords[i].answer) = 16
  /\ build.usableWords # <<>>
  /\ build.omittedWords # <<>>

\* The result of the insufficient-words return for the arguments of the call.
InsufficientResult ==
  [crossword |-> [rows |-> TierBoard, cols |-> TierBoard, entries |-> <<>>],
   selectedWords |-> <<>>,
   usableWords |-> AtPositions(poolWords, FitPositions),
   omittedWords |-> AtPositions(poolWords, LongPositions),
   requestedWords |-> TierCount,
   error |-> <<"No hay suficientes palabras para el nivel ", difficulty,
               " (", TierCount, " requeridas).">>]

\* C12 (InsufficientWords): when fewer pool words fit the board than the tier
\* requires (5, 10, 15), the result is the insufficient-words error with the
\* tier and the required count, an empty layout and no selected words, it is
\* fixed by the arguments (a repeated call returns the same), and
\* generateCrossword has not been called.
C12_InsufficientWords ==
  (BuildReturned /\ Cardinality(FitPositions) < TierCount) =>
    /\ build = InsufficientResult
    /\ build.crossword.entries = <<>>
    /\ build.selectedWords = <<>>
    /\ ~invoked

\* The basic tier with 3 usable words: the error asks for 5 words.
C12_Witness ==
  /\ BuildReturned
  /\ difficulty = "basic"
  /\ Len(build.usableWords) = 3
  /\ build.requestedWords = 5
  /\ build.error = insufficientError("basic", 5)

\* The result of the could-not-build return for the arguments of the call.
NotBuiltResult ==
  [crossword |-> [rows |-> TierBoard, cols |-> TierBoard, entries |-> <<>>],
   selectedWords |-> <<>>,
   usableWords |-> AtPositions(poolWords, FitPositions),
   omittedWords |-> AtPositions(poolWords, LongPositions),
   requestedWords |-> TierCount,
   error |-> <<"No se pudo construir un crucigrama de ", TierCount,
               " palabras para el nivel ", difficulty, ".">>]

\* C13 (LayoutNotFound): attempt never passes 300 and every attempt that does
\* not return adds one to it, so generateCrossword is called at most 300
\* times; the result with an error of a call with enough usable words is
\* returned from attempt = 300 only and is the could-not-build error with the
\* tier and the required count, no entries and no selected words, returned
\* as a value of the result type.
C13_LayoutNotFound ==
  /\ [](attempt \in 0..300)
  /\ [][(bpc = "loop" /\ bpc' = "loop") => (attempt' = attempt + 1 /\ attempt < 300)]_vars
  /\ [][(bpc = "loop" /\ bpc' = "done" /\ build'.error # null) =>
          (attempt = 300 /\ build' = NotBuiltResult)]_vars
  /\ []((BuildReturned /\ Cardinality(FitPositions) >= TierCount /\ build.error # null) =>
          (build = NotBuiltResult /\ build.crossword.entries = <<>>
           /\ build.selectedWords = <<>>))

\* A call with enough usable words has returned the could-not-build error.
C13_Witness ==
  /\ BuildReturned
  /\ build.error = notBuiltError(difficulty, 5)
  /\ Len(build.usableWords) >= 5
  /\ invoked

\* The words of the entries of a layout, with their clues.
entryWords(entries) == [n \in DOMAIN entries |-> [answer |-> entries[n].answer, clue |-> entries[n].clue]]

\* How many positions of the list hold the word.
Count(ws, w) == Cardinality({i \in DOMAIN ws : ws[i] = w})

\* C14 (selection success): error is null exactly when the returned layout
\* has the required number of entries; then selectedWords are that many
\* words at distinct positions of usableWords (no word is selected more often
\* than usableWords holds it), the entries place each selected word once and
\* no other word, and the layout is one that generateCrossword can return
\* for selectedWords; it is returned by an attempt within the budget, and a
\* returned result is final (no attempt follows the successful one).
C14_SelectionSuccess ==
  /\ [](BuildReturned =>
          (build.error = null <=> Len(build.crossword.entries) = TierCount))
  /\ []((BuildReturned /\ build.error = null) =>
          /\ invoked
          /\ Len(build.selectedWords) = TierCount
          /\ \A w \in Range(build.selectedWords) :
               Count(build.selectedWords, w) <= Count(build.usableWords, w)
          /\ \A w \in Range(build.selectedWords) \cup Range(entryWords(build.crossword.entries)) :
               Count(entryWords(build.crossword.entries), w) = Count(build.selectedWords, w)
          /\ build.crossword.rows = TierBoard /\ build.crossword.cols = TierBoard
          /\ build.crossword.entries
               \in generateCrossword(build.selectedWords, TierBoard, TierBoard))
  /\ [][(bpc = "loop" /\ bpc' = "done" /\ build'.error = null) => attempt < 300]_vars
  /\ [][BuildReturned => (BuildReturned' /\ build' = build)]_vars

\* A basic-tier call has returned a layout of 5 entries.
C14_Witness ==
  /\ BuildReturned
  /\ build.error = null
  /\ difficulty = "basic"
  /\ Len(build.crossword.entries) = 5
  /\ Len(build.omittedWords) = 1

----------------------------------------------------------------------------
(* Scenarios                                                               *)

Letters(w) == Range(w.answer)

\* C15 (scenario A): a call with two words of different answers that share a
\* letter, each of at most 5 letters, on a board of 5 rows and 5 columns
\* returns a layout of 2 entries that have exactly one cell in common.
C15_ScenarioA ==
  (/\ Returned /\ rows = 5 /\ cols = 5 /\ Len(words) = 2
   /\ words[1].answer # words[2].answer
   /\ Letters(words[1]) \cap Letters(words[2]) # {}
   /\ Len(words[1].answer) <= 5 /\ Len(words[2].answer) <= 5) =>
    /\ Len(E) = 2
    /\ Cardinality(entryCells(E[1]) \cap entryCells(E[2])) = 1

\* CAT and CAR placed on the board of 5 rows and 5 columns.
C15_Witness ==
  /\ Returned /\ rows = 5 /\ cols = 5
  /\ {words[n].answer : n \in DOMAIN words} = {<<"C", "A", "T">>, <<"C", "A", "R">>}
  /\ Len(E) = 2
  /\ Cardinality(entryCells(E[1]) \cap entryCells(E[2])) = 1

NoSharedLetter(ws) ==
  \A i, j \in DOMAIN ws : i # j => Letters(ws[i]) \cap Letters(ws[j]) = {}

\* C16 (scenario B): generateCrossword returns no entries for a list of two
\* or more words of which no two share a letter; and for a pool of 5 words of
\* length 9 of which no two share a letter, buildCrosswordForDifficulty on
\* the basic tier has called generateCrossword, every selection it can pass
\* gives no entries, and it returns the could-not-build error.
C16_ScenarioB ==
  /\ (pc = "done" /\ bpc = "idle" /\ Len(words) >= 2 /\ NoSharedLetter(words)) => E = <<>>
  /\ (/\ BuildReturned /\ difficulty = "basic" /\ Len(poolWords) = 5
      /\ \A i \in DOMAIN poolWords : Len(poolWords[i].answer) = 9
      /\ NoSharedLetter(poolWords)) =>
       /\ build = NotBuiltResult
       /\ invoked
       /\ \A selectedWords \in selections(usableWords, requestedWords) :
            generateCrossword(selectedWords, 9, 9) = {<<>>}

\* The basic tier has given up on 5 words of length 9 without a common letter.
C16_Witness ==
  /\ BuildReturned /\ difficulty = "basic" /\ Len(poolWords) = 5
  /\ \A i \in DOMAIN poolWords : Len(poolWords[i].answer) = 9
  /\ NoSharedLetter(poolWords)
  /\ build.error = notBuiltError("basic", 5)

----------------------------------------------------------------------------
(* Properties of Home: the rounds, the clock, the build errors             *)

\* C17: for one layout, under any sequence of cell edits, the handling of
\* "all cells correct" (the points of the tier, the timer of goToNextExercise)
\* fires at most once.
C17_CompletionOnce == completions <= 1

\* C18: in one round of a layout, under any interleaving of ticks, pause,
\* resume and cell edits, the handling of "time reaches zero" fires at most
\* once, and tiempoRestante is never below 0.
C18_TimeoutOnce == timeouts <= 1 /\ tiempoRestante >= 0

\* The clock has reached 0 on a board the user has typed into, and the
\* handling has fired.
C18_Witness ==
  /\ timeouts = 1 /\ tiempoRestante = 0 /\ timeoutHandledRef
  /\ showKeepTrying /\ transitionTimeout.pending
  /\ DOMAIN letters # {}

\* A screen or an overlay that stops the clock is shown.
ClockStopped ==
  pausado \/ showStartScreen \/ showCountdown \/ showSummary \/ showKeepTrying \/ showCongrats

\* C19: while pausado is true, or the start screen, the countdown, the
\* summary or an overlay is shown, no tick changes tiempoRestante (the start
\* of a game sets it), and at handleResume it has the value it had when
\* handlePausar took effect.
C19_PauseSuspendsClock ==
  [][/\ ClockStopped =>
          (tiempoRestante' = tiempoRestante \/ (showStartScreen /\ ~showStartScreen'))
     /\ pausado => tiempoRestante = tiempoAtPause]_vars

\* The game is paused with time on the clock and nothing else that stops it.
C19_Witness ==
  /\ pausado /\ tiempoRestante > 0 /\ tiempoAtPause = tiempoRestante
  /\ ~shouldPause_noPausado

\* C20: when a build returns an error, play does not start or continue on a
\* board: the start screen is left only without an error.
C20_PlayWithheld == configError # null => showStartScreen

\* The values of nivel, in small letters, that normalizarNivelConfig maps.
KnownNiveles == {"basico", "basic", "intermedio", "intermediate", "avanzado", "advanced"}

\* The difficulty of the last build, read from its outcome: the tier named by
\* the error message, or the tier of the board of the layout.
buildDifficulty ==
  IF configError # null THEN configError[2]
  ELSE CHOOSE d \in Difficulties : BOARD_SIZE_POR_DIFICULTAD[d] = crossword.rows

\* cargarConfig has called buildCrosswordForDifficulty.
LoadBuilt == configLoaded /\ configError \notin {loadError, noWordsError}

\* C21: when the configuration has no nivel, or a nivel that is none of the
\* six known values, the difficulty used to build the crossword is basic.
C21_DefaultBasic ==
  (LoadBuilt /\ toLowerCase(dataNivel) \notin KnownNiveles) => buildDifficulty = "basic"

----------------------------------------------------------------------------
(* Properties of the placement engine                                      *)

\* The start cell of the seed for combination k of the offsets, k from 0:
\* row offset number k div 5 and column offset number k mod 5 of
\* 0, -1, +1, -2, +2 around the centred start cell of an Across word.
seedCell(k, answer, nRows, nCols) ==
  <<(nRows \div 2) + <<0, -1, 1, -2, 2>>[(k \div 5) + 1],
    (nCols \div 2) - (Len(answer) \div 2) + <<0, -1, 1, -2, 2>>[(k % 5) + 1]>>

\* The seed can be placed at combination k on the empty grid.
seedFits(k, answer, nRows, nCols) ==
  canPlace(makeGrid(nRows, nCols), answer, "across",
           seedCell(k, answer, nRows, nCols)[1], seedCell(k, answer, nRows, nCols)[2],
           nRows, nCols)

\* The layouts backtrack can return for the order shuffled from the seed at
\* cell.
extensionsAt(cell, shuffled, nRows, nCols) ==
  backtrack(applyPlace(makeGrid(nRows, nCols), shuffled[1].answer, "across", cell[1], cell[2]),
            1, shuffled, Directions(shuffled),
            <<Entry(<<"A", 1>>, "across", cell[1], cell[2], shuffled[1])>>,
            1, 0, nRows, nCols).res

extensionsOf(k, shuffled, nRows, nCols) ==
  extensionsAt(seedCell(k, shuffled[1].answer, nRows, nCols), shuffled, nRows, nCols)

\* C22 as stated: the seed of a returned layout is at the first of the 25
\* combinations at which it can be placed.
C22_SeedAtFirstFit ==
  (Returned /\ Len(E) > 0) =>
    \E k \in 0..24 :
      /\ seedFits(k, E[1].answer, result.rows, result.cols)
      /\ \A j \in 0..(k - 1) : ~seedFits(j, E[1].answer, result.rows, result.cols)
      /\ <<E[1].row, E[1].col>> = seedCell(k, E[1].answer, result.rows, result.cols)

\* The layout cw has its seed at the first combination at which the seed can
\* be placed and backtrack returns a layout, and is a layout of that call.
SeedAtFirstExtendable(cw) ==
  \E k \in 0..24 :
    /\ seedFits(k, cw.entries[1].answer, cw.rows, cw.cols)
    /\ <<cw.entries[1].row, cw.entries[1].col>>
         = seedCell(k, cw.entries[1].answer, cw.rows, cw.cols)
    /\ cw.entries \in extensionsOf(k, entryWords(cw.entries), cw.rows, cw.cols)
    /\ \A j \in 0..(k - 1) :
         seedFits(j, cw.entries[1].answer, cw.rows, cw.cols)
           => extensionsOf(j, entryWords(cw.entries), cw.rows, cw.cols) = {}

\* For the order shuffled no combination gives a layout.
NoSeedExtends(shuffled, nRows, nCols) ==
  \A k \in 0..24 :
    seedFits(k, shuffled[1].answer, nRows, nCols) => extensionsOf(k, shuffled, nRows, nCols) = {}

\* C22, amended: the combinations are tried in order, backtrack is run from
\* each one at which the seed can be placed, and the first from which it
\* returns a layout gives the layout of the restart; a restart fails only
\* when no combination both fits and is extended to a layout.
C22_SeedAtFirstExtendable ==
  [][/\ (pc' = "done" /\ Len(result'.entries) > 0) => SeedAtFirstExtendable(result')
     /\ restart' = restart + 1 => \E shuffled \in Shuffled(words) :
                                    NoSeedExtends(shuffled, rows, cols)]_vars

\* A layout whose seed is not at the centred start cell, where it fits.
C22_Witness ==
  /\ Returned /\ Len(E) > 1
  /\ seedFits(0, E[1].answer, result.rows, result.cols)
  /\ <<E[1].row, E[1].col>> # seedCell(0, E[1].answer, result.rows, result.cols)

\* Number of entries of a layout with direction dir.
countOf(entries, dir) == Cardinality({n \in DOMAIN entries : entries[n].direction = dir})

\* C23: in every returned layout the entry at position i of entries (from 0)
\* is Across when i is even and Down when i is odd; the seed is Across, and
\* of N entries (N + 1) div 2 are Across and N div 2 are Down.
C23_DirectionAlternation ==
  Returned =>
    /\ \A n \in DOMAIN E :
         E[n].direction = IF (n - 1) % 2 = 0 THEN "across" ELSE "down"
    /\ countOf(E, "across") = (Len(E) + 1) \div 2
    /\ countOf(E, "down") = Len(E) \div 2

\* A layout of three entries: Across, Down, Across.
C23_Witness ==
  /\ Returned /\ Len(E) = 3
  /\ countOf(E, "across") = 2 /\ countOf(E, "down") = 1

\* The cell (r, c) is empty or out of bounds.
emptyOrOutside(grid, r, c, nRows, nCols) == ~inBounds(r, c, nRows, nCols) \/ grid[r][c] = ""

\* Letter cell i (from 0) of a word of direction dir that starts at (sr, sc).
letterCell(dir, sr, sc, i) ==
  <<sr + (IF dir = "down" THEN i ELSE 0), sc + (IF dir = "across" THEN i ELSE 0)>>

\* The four conditions of a legal placement.
Legal(grid, word, dir, sr, sc, nRows, nCols) ==
  /\ \A i \in 0..(Len(word) - 1) :
       inBounds(letterCell(dir, sr, sc, i)[1], letterCell(dir, sr, sc, i)[2], nRows, nCols)
  /\ emptyOrOutside(grid, letterCell(dir, sr, sc, -1)[1], letterCell(dir, sr, sc, -1)[2],
                    nRows, nCols)
  /\ emptyOrOutside(grid, letterCell(dir, sr, sc, Len(word))[1],
                    letterCell(dir, sr, sc, Len(word))[2], nRows, nCols)
  /\ \A i \in 0..(Len(word) - 1) :
       grid[letterCell(dir, sr, sc, i)[1]][letterCell(dir, sr, sc, i)[2]] # ""
         => grid[letterCell(dir, sr, sc, i)[1]][letterCell(dir, sr, sc, i)[2]] = word[i + 1]
  /\ \A i \in 0..(Len(word) - 1) :
       grid[letterCell(dir, sr, sc, i)[1]][letterCell(dir, sr, sc, i)[2]] = ""
         => IF dir = "across"
            THEN /\ emptyOrOutside(grid, sr - 1, sc + i, nRows, nCols)
                 /\ emptyOrOutside(grid, sr + 1, sc + i, nRows, nCols)
            ELSE /\ emptyOrOutside(grid, sr + i, sc - 1, nRows, nCols)
                 /\ emptyOrOutside(grid, sr + i, sc + 1, nRows, nCols)

\* C24: canPlace returns true exactly when the letter cells are in bounds,
\* the cells before the start and after the end are empty or out of bounds,
\* every occupied letter cell holds the letter of the word, and every empty
\* letter cell has its two perpendicular neighbours empty or out of bounds;
\* it reads no cell outside the grid.
C24_Legality ==
  placeCall.made =>
    /\ placeCall.ok = Legal(placeCall.grid, placeCall.word, placeCall.dir,
                            placeCall.sr, placeCall.sc, rows, cols)
    /\ \A k \in placeCall.reads : inBounds(k[1], k[2], rows, cols)

\* canPlace has accepted a word on a grid that holds letters, over one of
\* them, and next to the edge of the grid.
C24_Witness ==
  /\ placeCall.made /\ placeCall.ok
  /\ \E k \in placeCall.reads : placeCall.grid[k[1]][k[2]] # ""
  /\ \/ placeCall.sr = 0 \/ placeCall.sc = 0

\* The start cells of the grid at which the word is legal and lies over at
\* least one occupied cell.
crossingStarts(grid, word, dir, nRows, nCols) ==
  {cell \in [r : 0..(nRows - 1), c : 0..(nCols - 1)] :
     /\ Legal(grid, word, dir, cell.r, cell.c, nRows, nCols)
     /\ \E i \in 0..(Len(word) - 1) :
          grid[letterCell(dir, cell.r, cell.c, i)[1]][letterCell(dir, cell.r, cell.c, i)[2]] # ""}

\* There is a way to place the words idx..N-1 of shuffled in that order, each
\* at a start cell that is legal on the grid built so far and lies over at
\* least one occupied cell.
RECURSIVE Completable(_, _, _, _, _)
Completable(grid, idx, shuffled, nRows, nCols) ==
  \/ idx >= Len(shuffled)
  \/ \E cell \in crossingStarts(grid, shuffled[idx + 1].answer, Directions(shuffled)[idx + 1],
                                 nRows, nCols) :
       Completable(applyPlace(grid, shuffled[idx + 1].answer, Directions(shuffled)[idx + 1],
                              cell.r, cell.c),
                   idx + 1, shuffled, nRows, nCols)

\* The step is a return of null by the call of backtrack on top.
ReturnsNull ==
  /\ spc = "search" /\ top.idx < Len(perm)
  /\ Len(stack') < Len(stack) /\ spc' # "built"

\* The candidates made from letter matches for the call of backtrack on top.
topCandidates ==
  Range(getCandidatesByCrossing(top.received, perm[top.idx + 1].answer,
                                Directions(perm)[top.idx + 1], rows, cols))

\* C25: for a fixed permutation, direction assignment and seed position, a
\* call of backtrack at index idx returns failure exactly when there is no
\* way to place the words idx..N-1 in that order, each legal and over at
\* least one occupied cell; every such start cell is among the candidates
\* made from letter matches; a word with no letter match fails at once.
C25_ExhaustiveBacktracking ==
  [][/\ ReturnsNull => ~Completable(top.received, top.idx, perm, rows, cols)
     /\ (spc = "search" /\ spc' = "built") =>
          \A n \in DOMAIN stack :
            Completable(stack[n].received, stack[n].idx, perm, rows, cols)
     /\ (spc = "search" /\ top.idx < Len(perm)) =>
          /\ crossingStarts(top.received, perm[top.idx + 1].answer,
                            Directions(perm)[top.idx + 1], rows, cols) \subseteq topCandidates
          /\ topCandidates = {} => ReturnsNull]_vars

\* A call of backtrack that has made recursive calls and has no candidate
\* left: it returns null.
C25_Witness ==
  /\ spc = "search" /\ top.idx < Len(perm)
  /\ DOMAIN top.untried = {} /\ top.calls >= 1

\* C26: a call of backtrack leaves the grid and the entries it received
\* unchanged: while it runs and after a call it made has returned, its grid
\* is as it was received and its entries are the idx entries it was given,
\* and the grid of the restart stays empty for every seed offset.
C26_NoLeak ==
  spc \in {"seeds", "search"} =>
    /\ heap[1] = makeGrid(rows, cols)
    /\ \A n \in DOMAIN stack :
         /\ heap[stack[n].ref] = stack[n].received
         /\ Len(stack[n].entries) = stack[n].idx
         /\ n > 1 => stack[n - 1].entries = SubSeq(stack[n].entries, 1, stack[n - 1].idx)

\* A call of backtrack to which a recursive call has returned null, with a
\* sibling candidate still to try.
C26_Witness ==
  /\ spc = "search" /\ top.idx < Len(perm)
  /\ top.calls >= 1 /\ DOMAIN top.untried # {}
  /\ heap[top.ref] = top.received

----------------------------------------------------------------------------
(* Properties of Home: the advance to the summary, the engine's input      *)

\* C27: goToNextExercise runs at most once for one layout: completedExercises
\* never exceeds the number of exercises of the tier, and the score never
\* exceeds maxScore (numExercises times the points of the tier).
C27_AdvanceOnce ==
  /\ completedExercises <= numExercises
  /\ puntuacionTotal <= numExercises * PUNTOS_POR_DIFICULTAD[difficultyConfig]

\* C28: a 2000 ms timer of a time-out or of a completion takes no effect
\* after the player has paused and gone back to the start screen: the summary
\* is never shown while the start screen is shown.
C28_NoStaleTransition == ~(showStartScreen /\ showSummary)

\* C29: every word list that buildCrosswordForDifficulty passes to
\* generateCrossword is not empty, has answers that differ pairwise, and has
\* answers of 1 to max(rows, cols) letters.
C29_EnginePrecondition ==
  (BuildReturned /\ build.error = null) =>
    /\ Len(build.selectedWords) > 0
    /\ \A i, j \in DOMAIN build.selectedWords :
         i # j => build.selectedWords[i].answer # build.selectedWords[j].answer
    /\ \A i \in DOMAIN build.selectedWords :
         /\ Len(build.selectedWords[i].answer) >= 1
         /\ Len(build.selectedWords[i].answer) <= maxWordLength(difficulty)


====
